---- MODULE Spec2Model ----
(***************************************************************************)
(* goiterators: the Iterator contract, its adapters and the parallel       *)
(* combinator engine (processAsync with context) as a state machine.       *)
(*                                                                         *)
(* A chain of one or two parallel stages is built over a source iterator.  *)
(* Every stage owns a dispatcher goroutine, one worker goroutine per       *)
(* pulled element, a sync.WaitGroup, a helper goroutine that closes the    *)
(* "done" channel, and an unbuffered rendezvous channel read by an         *)
(* asyncIterator.  The consumer drains the asyncIterator of the last       *)
(* stage.  The context may be canceled at any moment.                      *)
(***************************************************************************)
EXTENDS Integers, Sequences, FiniteSets, Bags, TLC

\* ------------------------------------------------------------------ bounds
MaxItems == 2
MaxDrains == 2
MaxSyncItems == 3
MaxSyncDrains == 2
MaxBreak == 1
MaxFailOn == 2
MaxForEachCalls == 1
MaxChanItems == 3
NumConsumers == 2
MaxStop == 2

\* ------------------------------------------------------------ value domains
Values == {1, 2}
Stages == {1, 2}
Ops == {"map", "filter", "flatmap"}
Nil == "nil"
ErrCanceled == "context.Canceled"
ErrSource == "source error"
ErrWorker == "worker error"
NoLimit == -1

VARIABLES
    input,      \* the program's arguments: source, combinators, functions, consumer
    ctxDone,    \* ctx.Done() is closed
    srcPos,     \* number of elements the source has yielded
    srcErr,     \* the source iterator's err field
    dpc,        \* per stage: position of the dispatcher goroutine
    held,       \* per stage: (idx, item) of the loop body in progress
    dres,       \* per stage: the Result the dispatcher is sending
    wg,         \* per stage: sync.WaitGroup counter
    done,       \* per stage: helper goroutine / done channel
    channel,    \* per stage: "open" or "closed"
    units,      \* per stage: sequence of worker goroutines, one per pulled element
    aerr,       \* per stage: asyncIterator.err
    aidx,       \* per stage: local i of asyncIterator.INext
    cpc,        \* consumer position
    got,        \* values the consumer's visit callback was called with, in order
    cnt,        \* values yielded in the current drain
    drains,     \* number of drains the consumer has begun
    hist,       \* history of what happened (read by properties only)
    pipe,       \* a synchronous pipeline: its source, its combinators in order
    serr,       \* per sequence of the pipeline (0 is the source): its err field
    chanPos,    \* values received so far from the pipeline's source channel
    log,        \* one record per drain of the pipeline's outermost sequence
    shared      \* a channel-backed sequence and the goroutines that drain it

pvars == <<pipe, serr, chanPos, log>>

svars == <<pipe, serr, chanPos, log, shared>>

avars == <<input, ctxDone, srcPos, srcErr, dpc, held, dres, wg, done, channel,
           units, aerr, aidx, cpc, got, cnt, drains, hist>>

vars == <<input, ctxDone, srcPos, srcErr, dpc, held, dres, wg, done, channel,
          units, aerr, aidx, cpc, got, cnt, drains, hist, pipe, serr, chanPos, log,
          shared>>

\* ------------------------------------------------------------- user functions
\* the transform of Map: item * 2, as in the tests
MapFn(x) == x * 2

\* the predicate of Filter: even, as in the tests
Pred(x) == x % 2 = 0

\* the expansion of FlatMap: nothing for an odd item, {item, item*10} otherwise
Expand(x) == IF x % 2 = 1 THEN <<>> ELSE <<x, x * 10>>

Result(v, e) == [val |-> v, err |-> e]

RECURSIVE Concat(_)
Concat(ss) == IF ss = <<>> THEN <<>> ELSE Head(ss) \o Concat(Tail(ss))

RECURSIVE Keep(_)
Keep(xs) ==
    IF xs = <<>> THEN <<>>
    ELSE (IF Pred(Head(xs)) THEN <<Head(xs)>> ELSE <<>>) \o Keep(Tail(xs))

\* ------------------------------------------------- synchronous combinators
\* what draining Map / Filter / FlatMap over a slice yields, in order
Map(xs) == [i \in 1..Len(xs) |-> MapFn(xs[i])]

Filter(xs) == Keep(xs)

FlatMap(xs) == Concat([i \in 1..Len(xs) |-> Expand(xs[i])])

SyncOp(op, xs) ==
    CASE op = "map" -> Map(xs)
      [] op = "filter" -> Filter(xs)
      [] op = "flatmap" -> FlatMap(xs)
      [] op = "foreach" -> [i \in 1..Len(xs) |-> 0]

\* the synchronous counterpart of the whole chain
SyncChain(in) ==
    LET first == SyncOp(in.op[1], in.src.items)
    IN IF in.chain = 1 THEN first ELSE SyncOp(in.op[2], first)

\* ----------------------------------------------------------------- inputs
RECURSIVE SeqsUpTo(_)
SeqsUpTo(n) ==
    IF n = 0 THEN {<<>>}
    ELSE LET shorter == SeqsUpTo(n - 1)
         IN shorter \cup {Append(s, v) : s \in {t \in shorter : Len(t) = n - 1}, v \in Values}

Iota(n) == [i \in 1..n |-> i]

\* the source kinds: a slice (NewIteratorFromSlice), a fallible generator whose
\* element at position errAt carries an error (NewIteratorErr), the tests'
\* iterator that records an error after errAt elements and keeps yielding,
\* and a synchronous Filter over a fallible generator
Sources ==
    {[kind |-> "slice", items |-> xs, errAt |-> -1] : xs \in SeqsUpTo(MaxItems)}
    \cup {[kind |-> "fallible", items |-> Iota(n), errAt |-> e] :
            n \in 1..MaxItems, e \in 0..(MaxItems - 1)}
    \cup {[kind |-> "custom", items |-> Iota(n), errAt |-> e] :
            n \in 1..MaxItems, e \in 1..MaxItems}
    \cup {[kind |-> "filtered", items |-> xs, errAt |-> e] :
            xs \in SeqsUpTo(MaxItems), e \in 0..(MaxItems - 1)}

\* one parallel stage over every source and combinator.  A function that fails
\* (failOn) is combined with context.Background(); a cancellable context with
\* functions that do not fail, polling the context or not; a consumer that
\* stops after one element (limit) with functions that do not poll
SingleInputs ==
    {in \in [src : Sources, chain : {1}, op : [Stages -> Ops],
             failOn : {0, 1}, polls : BOOLEAN, cancellable : BOOLEAN,
             limit : {NoLimit, 1}, take : {0}] :
        /\ in.src.errAt < Len(in.src.items) + (IF in.src.kind = "custom" THEN 1 ELSE 0)
        /\ in.op[2] = "map"
        /\ in.src.kind = "filtered" => (~in.cancellable /\ in.failOn = 0 /\ in.limit = NoLimit)
        /\ ~in.cancellable => ~in.polls
        /\ in.cancellable => in.failOn = 0
        /\ in.polls => in.limit = NoLimit}

\* two chained parallel stages: every pair of combinators without
\* cancellation, and MapAsyncCtx -> FilterAsyncCtx under one cancellable
\* context (the chain of TestContextCancellationChain)
ChainInputs ==
    {in \in [src : Sources, chain : {2}, op : [Stages -> Ops],
             failOn : {0}, polls : {FALSE}, cancellable : BOOLEAN,
             limit : {NoLimit}, take : {0}] :
        /\ in.src.kind \in {"slice", "fallible"}
        /\ in.src.errAt < Len(in.src.items)
        /\ in.src.items = Iota(Len(in.src.items))
        /\ in.cancellable => (in.op[1] = "map" /\ in.op[2] = "filter")}

\* ForEachAsync / IForEachAsync over every source, with a function that
\* fails on failOn
ForEachInputs ==
    {in \in [src : Sources, chain : {1},
             op : {[s \in Stages |-> IF s = 1 THEN "foreach" ELSE "map"]},
             failOn : {0, 1}, polls : {FALSE}, cancellable : {FALSE},
             limit : {NoLimit}, take : {0}] :
        /\ in.src.kind # "filtered"
        /\ in.src.errAt < Len(in.src.items) + (IF in.src.kind = "custom" THEN 1 ELSE 0)}

\* Take(P, n) over one parallel stage P (the chains of TestSyncAsyncSyncChain
\* and TestMixedContextAndRegularOperations): take is n, 0 where the consumer
\* drains the stage itself
TakeInputs ==
    {in \in [src : Sources, chain : {1}, op : [Stages -> Ops],
             failOn : {0}, polls : {FALSE}, cancellable : {FALSE},
             limit : {NoLimit}, take : 1..MaxItems] :
        /\ in.src.kind \in {"slice", "fallible"}
        /\ in.src.errAt < Len(in.src.items)
        /\ in.op[2] = "map"}

Inputs == SingleInputs \cup ChainInputs \cup ForEachInputs \cup TakeInputs

Top == input.chain

\* no synchronous pipeline has been built
NoPipe == [src |-> [kind |-> "slice", items |-> <<>>, errAt |-> -1], ops |-> <<>>]

\* the goroutines that drain one sequence concurrently
Consumers == 1..NumConsumers

\* no shared channel-backed sequence exists
NoShared ==
    [data |-> <<>>, next |-> 1, inClosed |-> FALSE, fpc |-> "none",
     fitem |-> Result(0, Nil), outClosed |-> FALSE, err |-> Nil,
     cons |-> [c \in Consumers |-> [pc |-> "idle", i |-> 0, limit |-> NoLimit, got |-> <<>>]]]

Init ==
    /\ shared = NoShared
    /\ pipe = NoPipe
    /\ serr = [k \in {0} |-> Nil]
    /\ chanPos = 0
    /\ log = <<>>
    /\ input \in Inputs
    /\ ctxDone \in (IF input.cancellable THEN BOOLEAN ELSE {FALSE})
    /\ srcPos = 0
    /\ srcErr = Nil
    /\ dpc = [s \in Stages |-> IF s <= input.chain THEN "pull" ELSE "none"]
    /\ held = [s \in Stages |-> [idx |-> 0, item |-> 0]]
    /\ dres = [s \in Stages |-> Result(0, Nil)]
    /\ wg = [s \in Stages |-> 0]
    /\ done = [s \in Stages |-> "none"]
    /\ channel = [s \in Stages |-> "open"]
    /\ units = [s \in Stages |-> <<>>]
    /\ aerr = [s \in Stages |-> Nil]
    /\ aidx = [s \in Stages |-> 0]
    /\ cpc = "idle"
    /\ got = <<>>
    /\ cnt = 0
    /\ drains = 0
    /\ hist = [pre |-> ctxDone, inflight |-> FALSE, waiting |-> FALSE,
               obs |-> [s \in Stages |-> FALSE],
               pulled |-> [s \in Stages |-> 0]]

\* ---------------------------------------------------------------- helpers
\* a dispatcher that looks at the error of the source only
UpErrOfSourceOnly(s) == IF s = 1 THEN srcErr ELSE Nil

\* iter.Err() of the upstream the dispatcher of stage s drains
UpErr(s) == IF s = 1 THEN srcErr ELSE aerr[s - 1]

\* the reader of stage s's channel is blocked in a receive
RecvReady(s) == IF s = Top THEN cpc = "recv" ELSE dpc[s + 1] = "pull"

\* the dispatcher's range loop over iter.INext has ended: it spawns the helper
\* goroutine that waits for the WaitGroup and goes on to the select
LoopEnd(d, s) == [d EXCEPT ![s] = "select"]

\* a Take that goes on until the position after n-1
TakeStopsOnePast(idx) == input.take > 0 /\ idx >= input.take

\* Take over the outermost stage returns from its loop once it has forwarded
\* the element at position idx: if idx >= (n - 1) { return }
TakeStops(idx) == input.take > 0 /\ idx >= input.take - 1

\* asyncIterator.Next / INext of stage s receives Result r from its channel;
\* d is dpc as the sender leaves it
Receive(s, r, d) ==
    IF s = Top
    THEN /\ dpc' = d
         /\ UNCHANGED <<held, done>>
         /\ hist' = hist
         /\ IF r.err # Nil
            THEN /\ aerr' = [aerr EXCEPT ![s] = r.err]
                 /\ cpc' = "returned"
                 /\ UNCHANGED <<got, cnt, aidx>>
            ELSE /\ got' = Append(got, r.val)
                 /\ cnt' = cnt + 1
                 /\ aidx' = [aidx EXCEPT ![s] = @ + 1]
                 /\ cpc' = IF cnt + 1 = input.limit \/ TakeStops(aidx[s])
                           THEN "returned" ELSE "recv"
                 /\ aerr' = aerr
    ELSE /\ UNCHANGED <<cpc, got, cnt>>
         /\ IF r.err # Nil
            THEN /\ aerr' = [aerr EXCEPT ![s] = r.err]
                 /\ dpc' = LoopEnd(d, s + 1)
                 /\ done' = [done EXCEPT ![s + 1] = "waiting"]
                 /\ hist' = hist
                 /\ UNCHANGED <<held, aidx>>
            ELSE /\ held' = [held EXCEPT ![s + 1] = [idx |-> aidx[s], item |-> r.val]]
                 /\ aidx' = [aidx EXCEPT ![s] = @ + 1]
                 /\ dpc' = [d EXCEPT ![s + 1] = "body"]
                 /\ hist' = [hist EXCEPT !.pulled[s + 1] = @ + 1]
                 /\ UNCHANGED <<aerr, done>>

\* ------------------------------------------------------- source iterators
\* the err field of the source as its drain loop leaves it before the next
\* element (customErrorIterator: itemsYielded == errorAfterItem)
\* the positions from which Filter's loop over the generator keeps an element
\* before the generator fails
KeptAt == {j \in srcPos..(input.src.errAt - 1) : Pred(input.src.items[j + 1])}

\* the position of the element the source yields next
NextPos ==
    IF input.src.kind = "filtered" THEN CHOOSE j \in KeptAt : \A l \in KeptAt : j <= l
    ELSE srcPos

SourceErr ==
    CASE input.src.kind = "slice" -> srcErr
      [] input.src.kind = "filtered" -> IF KeptAt = {} THEN ErrSource ELSE srcErr
      [] input.src.kind = "fallible" ->
            IF srcPos = input.src.errAt THEN ErrSource ELSE srcErr
      [] input.src.kind = "custom" ->
            IF srcPos > 0 /\ srcPos = input.src.errAt THEN ErrSource ELSE srcErr

\* whether the source yields one more element
SourceYields ==
    /\ srcPos < Len(input.src.items)
    /\ input.src.kind = "fallible" => srcErr = Nil /\ srcPos # input.src.errAt
    /\ input.src.kind = "filtered" => srcErr = Nil /\ KeptAt # {}

\* ------------------------------------------------------------- dispatcher
\* for idx, item := range iter.INext, over the source iterator
PullSource ==
    /\ dpc[1] = "pull"
    /\ srcErr' = SourceErr
    /\ IF SourceYields
       THEN /\ srcPos' = NextPos + 1
            /\ held' = [held EXCEPT ![1] = [idx |-> NextPos,
                                            item |-> input.src.items[NextPos + 1]]]
            /\ dpc' = [dpc EXCEPT ![1] = "body"]
            /\ hist' = [hist EXCEPT !.pulled[1] = @ + 1]
            /\ done' = done
       ELSE /\ dpc' = LoopEnd(dpc, 1)
            /\ done' = [done EXCEPT ![1] = "waiting"]
            /\ UNCHANGED <<srcPos, held, hist>>
    /\ UNCHANGED <<input, ctxDone, dres, wg, channel, units, aerr, aidx, cpc, got, cnt, drains>>
    /\ UNCHANGED svars

\* for idx, item := range iter.INext, over a closed upstream channel
PullClosed(s) ==
    /\ s > 1
    /\ dpc[s] = "pull"
    /\ channel[s - 1] = "closed"
    /\ dpc' = LoopEnd(dpc, s)
    /\ done' = [done EXCEPT ![s] = "waiting"]
    /\ UNCHANGED <<input, ctxDone, srcPos, srcErr, held, dres, wg, channel, units, aerr,
                   aidx, cpc, got, cnt, drains, hist>>
    /\ UNCHANGED svars

\* a worker goroutine that is handed position 0 whatever the upstream reported
NewUnitAtPositionZero(s) ==
    [idx |-> 0, item |-> held[s].item, pc |-> "start", out |-> <<>>,
     ran |-> FALSE, saw |-> FALSE, sent |-> 0]

\* go func(idx int, item T) {...}(idx, item): the worker goroutine of the pair
\* the loop holds
NewUnit(s) ==
    [idx |-> held[s].idx, item |-> held[s].item, pc |-> "start", out |-> <<>>,
     ran |-> FALSE, saw |-> FALSE, sent |-> 0]

\* a loop body without the context check
BodyWithoutContextCheck(s) ==
    /\ dpc[s] = "body"
    /\ IF UpErr(s) # Nil
       THEN /\ dres' = [dres EXCEPT ![s] = Result(0, UpErr(s))]
            /\ dpc' = [dpc EXCEPT ![s] = "sendLoop"]
            /\ UNCHANGED <<wg, units, hist>>
       ELSE /\ wg' = [wg EXCEPT ![s] = @ + 1]
            /\ units' = [units EXCEPT ![s] = Append(@, NewUnit(s))]
            /\ dpc' = [dpc EXCEPT ![s] = "pull"]
            /\ UNCHANGED <<dres, hist>>
    /\ UNCHANGED <<input, ctxDone, srcPos, srcErr, held, done, channel, aerr, aidx, cpc,
                   got, cnt, drains>>
    /\ UNCHANGED svars

\* a loop body without the check of the upstream's error
BodyWithoutUpstreamCheck(s) ==
    /\ dpc[s] = "body"
    /\ IF ctxDone
       THEN /\ dres' = [dres EXCEPT ![s] = Result(0, ErrCanceled)]
            /\ dpc' = [dpc EXCEPT ![s] = "sendLoop"]
            /\ hist' = [hist EXCEPT !.obs[s] = TRUE]
            /\ UNCHANGED <<wg, units>>
       ELSE /\ wg' = [wg EXCEPT ![s] = @ + 1]
            /\ units' = [units EXCEPT ![s] = Append(@, NewUnit(s))]
            /\ dpc' = [dpc EXCEPT ![s] = "pull"]
            /\ UNCHANGED <<dres, hist>>
    /\ UNCHANGED <<input, ctxDone, srcPos, srcErr, held, done, channel, aerr, aidx, cpc,
                   got, cnt, drains>>
    /\ UNCHANGED svars

\* the loop body: the context check, the upstream error check, the spawn
Body(s) ==
    /\ dpc[s] = "body"
    /\ IF ctxDone
       THEN /\ dres' = [dres EXCEPT ![s] = Result(0, ErrCanceled)]
            /\ dpc' = [dpc EXCEPT ![s] = "sendLoop"]
            /\ hist' = [hist EXCEPT !.obs[s] = TRUE]
            /\ UNCHANGED <<wg, units>>
       ELSE IF UpErr(s) # Nil
       THEN /\ dres' = [dres EXCEPT ![s] = Result(0, UpErr(s))]
            /\ dpc' = [dpc EXCEPT ![s] = "sendLoop"]
            /\ UNCHANGED <<wg, units, hist>>
       ELSE /\ wg' = [wg EXCEPT ![s] = @ + 1]
            /\ units' = [units EXCEPT ![s] = Append(@, NewUnit(s))]
            /\ dpc' = [dpc EXCEPT ![s] = "pull"]
            /\ UNCHANGED <<dres, hist>>
    /\ UNCHANGED <<input, ctxDone, srcPos, srcErr, held, done, channel, aerr, aidx, cpc,
                   got, cnt, drains>>
    /\ UNCHANGED svars

\* a dispatcher that goes on with its loop after it sent the error
AfterSendKeepsLooping(pc) ==
    IF pc = "sendFinal" THEN "exit" ELSE IF pc = "sendLoop" THEN "pull" ELSE "wgWait"

\* where the dispatcher goes after its blocking send
AfterSend(pc) == IF pc = "sendFinal" THEN "exit" ELSE "wgWait"

\* a dispatcher that sends the cancellation error seen while waiting only
\* after wg.Wait()
DispatcherSendAfterWait(s) ==
    /\ dpc[s] \in {"sendLoop", "sendSelect", "sendFinal"}
    /\ dpc[s] = "sendSelect" => wg[s] = 0
    /\ channel[s] = "open"
    /\ RecvReady(s)
    /\ channel' = [channel EXCEPT ![s] = IF AfterSend(dpc[s]) = "exit" THEN "closed" ELSE @]
    /\ Receive(s, dres[s], [dpc EXCEPT ![s] = AfterSend(dpc[s])])
    /\ UNCHANGED <<input, ctxDone, srcPos, srcErr, dres, wg, units, drains>>
    /\ UNCHANGED svars

\* channel <- Result{Err: ...} by the dispatcher (lines 85, 93, 123, 130); after
\* the final send the function returns and the deferred close runs
DispatcherSend(s) ==
    /\ dpc[s] \in {"sendLoop", "sendSelect", "sendFinal"}
    /\ channel[s] = "open"
    /\ RecvReady(s)
    /\ channel' = [channel EXCEPT ![s] = IF AfterSend(dpc[s]) = "exit" THEN "closed" ELSE @]
    /\ Receive(s, dres[s], [dpc EXCEPT ![s] = AfterSend(dpc[s])])
    /\ UNCHANGED <<input, ctxDone, srcPos, srcErr, dres, wg, units, drains>>
    /\ UNCHANGED svars

\* a dispatcher that returns after its send without wg.Wait()
WgWaitReturnsAtOnce(s) ==
    /\ dpc[s] = "wgWait"
    /\ dpc' = [dpc EXCEPT ![s] = "exit"]
    /\ channel' = [channel EXCEPT ![s] = "closed"]
    /\ UNCHANGED <<input, ctxDone, srcPos, srcErr, held, dres, wg, done, units, aerr,
                   aidx, cpc, got, cnt, drains, hist>>
    /\ UNCHANGED svars

\* wg.Wait() followed by return: the deferred close(channel)
WgWait(s) ==
    /\ dpc[s] = "wgWait"
    /\ wg[s] = 0
    /\ dpc' = [dpc EXCEPT ![s] = "exit"]
    /\ channel' = [channel EXCEPT ![s] = "closed"]
    /\ UNCHANGED <<input, ctxDone, srcPos, srcErr, held, dres, wg, done, units, aerr,
                   aidx, cpc, got, cnt, drains, hist>>
    /\ UNCHANGED svars

\* a helper goroutine that closes done without wg.Wait()
HelperClosesAtOnce(s) ==
    /\ done[s] = "waiting"
    /\ done' = [done EXCEPT ![s] = "closed"]
    /\ UNCHANGED <<input, ctxDone, srcPos, srcErr, dpc, held, dres, wg, channel, units,
                   aerr, aidx, cpc, got, cnt, drains, hist>>
    /\ UNCHANGED svars

\* go func() { wg.Wait(); close(done) }()
Helper(s) ==
    /\ done[s] = "waiting"
    /\ wg[s] = 0
    /\ done' = [done EXCEPT ![s] = "closed"]
    /\ UNCHANGED <<input, ctxDone, srcPos, srcErr, dpc, held, dres, wg, channel, units,
                   aerr, aidx, cpc, got, cnt, drains, hist>>
    /\ UNCHANGED svars

\* a select case <-done that returns without the final check of iter.Err()
SelectDoneWithoutFinalCheck(s) ==
    /\ dpc[s] = "select"
    /\ done[s] = "closed"
    /\ dpc' = [dpc EXCEPT ![s] = "exit"]
    /\ channel' = [channel EXCEPT ![s] = "closed"]
    /\ dres' = dres
    /\ UNCHANGED <<input, ctxDone, srcPos, srcErr, held, wg, done, units, aerr, aidx,
                   cpc, got, cnt, drains, hist>>
    /\ UNCHANGED svars

\* select case <-done, then the final check of iter.Err()
SelectDone(s) ==
    /\ dpc[s] = "select"
    /\ done[s] = "closed"
    /\ IF UpErr(s) # Nil
       THEN /\ dres' = [dres EXCEPT ![s] = Result(0, UpErr(s))]
            /\ dpc' = [dpc EXCEPT ![s] = "sendFinal"]
            /\ channel' = channel
       ELSE /\ dpc' = [dpc EXCEPT ![s] = "exit"]
            /\ channel' = [channel EXCEPT ![s] = "closed"]
            /\ dres' = dres
    /\ UNCHANGED <<input, ctxDone, srcPos, srcErr, held, wg, done, units, aerr, aidx,
                   cpc, got, cnt, drains, hist>>
    /\ UNCHANGED svars

\* a select whose ctx.Done() case returns without reporting ctx.Err()
SelectCanceledDropsError(s) ==
    /\ dpc[s] = "select"
    /\ ctxDone
    /\ wg[s] = 0
    /\ dpc' = [dpc EXCEPT ![s] = "exit"]
    /\ channel' = [channel EXCEPT ![s] = "closed"]
    /\ hist' = [hist EXCEPT !.obs[s] = TRUE]
    /\ UNCHANGED <<input, ctxDone, srcPos, srcErr, held, dres, wg, done, units, aerr,
                   aidx, cpc, got, cnt, drains>>
    /\ UNCHANGED svars

\* select case <-ctx.Done()
SelectCanceled(s) ==
    /\ dpc[s] = "select"
    /\ ctxDone
    /\ dres' = [dres EXCEPT ![s] = Result(0, ErrCanceled)]
    /\ dpc' = [dpc EXCEPT ![s] = "sendSelect"]
    /\ hist' = [hist EXCEPT !.obs[s] = TRUE]
    /\ UNCHANGED <<input, ctxDone, srcPos, srcErr, held, wg, done, channel, units, aerr,
                   aidx, cpc, got, cnt, drains>>
    /\ UNCHANGED svars

\* ------------------------------------------------------------------ workers
\* the error fn(ctx, idx, item) returns: a polling function returns ctx.Err()
\* once the context is canceled, and the function fails on item failOn
FnErr(item) ==
    IF input.polls /\ ctxDone THEN ErrCanceled
    ELSE IF item = input.failOn THEN ErrWorker
    ELSE Nil

\* a worker of IFilterAsyncCtx that sends the item whatever the predicate says
WorkerResultsIgnoresPredicate(op, item) ==
    LET e == FnErr(item)
    IN CASE op = "map" ->
              <<Result(IF e = Nil THEN MapFn(item) ELSE 0, e)>>
         [] op = "filter" ->
              IF e # Nil THEN <<Result(0, e)>> ELSE <<Result(item, Nil)>>
         [] op = "flatmap" ->
              IF e # Nil THEN <<Result(0, e)>>
              ELSE LET rs == Expand(item)
                   IN [j \in 1..Len(rs) |-> Result(rs[j], Nil)]
         [] op = "foreach" -> <<Result(0, e)>>

\* a worker of IForEachAsyncCtx that signals completion without fn's error
WorkerResultsDropsFnError(op, item) ==
    LET e == FnErr(item)
    IN CASE op = "map" ->
              <<Result(IF e = Nil THEN MapFn(item) ELSE 0, e)>>
         [] op = "filter" ->
              IF e # Nil THEN <<Result(0, e)>>
              ELSE IF Pred(item) THEN <<Result(item, Nil)>>
              ELSE <<>>
         [] op = "flatmap" ->
              IF e # Nil THEN <<Result(0, e)>>
              ELSE LET rs == Expand(item)
                   IN [j \in 1..Len(rs) |-> Result(rs[j], Nil)]
         [] op = "foreach" -> <<Result(0, Nil)>>

\* workers that send the element's value ahead of the function's error
WorkerResultsKeepsValueOnError(op, item) ==
    LET e == FnErr(item)
        vs == CASE op = "map" -> <<Result(MapFn(item), Nil)>>
                [] op = "filter" -> IF Pred(item) \/ e # Nil THEN <<Result(item, Nil)>> ELSE <<>>
                [] op = "flatmap" ->
                     LET rs == Expand(item) IN [j \in 1..Len(rs) |-> Result(rs[j], Nil)]
                [] op = "foreach" -> <<>>
    IN IF e # Nil THEN vs \o <<Result(0, e)>>
       ELSE IF op = "foreach" THEN <<Result(0, Nil)>> ELSE vs

\* the Results the worker of IMapAsyncCtx / IFilterAsyncCtx / IFlatMapAsyncCtx
\* / IForEachAsyncCtx sends for one item, in order
WorkerResults(op, item) ==
    LET e == FnErr(item)
    IN CASE op = "map" ->
              <<Result(IF e = Nil THEN MapFn(item) ELSE 0, e)>>
         [] op = "filter" ->
              IF e # Nil THEN <<Result(0, e)>>
              ELSE IF Pred(item) THEN <<Result(item, Nil)>>
              ELSE <<>>
         [] op = "flatmap" ->
              IF e # Nil THEN <<Result(0, e)>>
              ELSE LET rs == Expand(item)
                   IN [j \in 1..Len(rs) |-> Result(rs[j], Nil)]
         [] op = "foreach" -> <<Result(0, e)>>

\* a worker that sees the cancellation at its start and calls the function
\* all the same
UnitStartRunsWhenCancelled(s, i) ==
    /\ i \in 1..Len(units[s])
    /\ units[s][i].pc = "start"
    /\ units' = [units EXCEPT ![s][i] = [@ EXCEPT !.pc = "run", !.saw = ctxDone]]
    /\ UNCHANGED <<input, ctxDone, srcPos, srcErr, dpc, held, dres, wg, done, channel,
                   aerr, aidx, cpc, got, cnt, drains, hist>>
    /\ UNCHANGED svars

\* the select at the start of the worker goroutine (lines 101-107)
UnitStart(s, i) ==
    /\ i \in 1..Len(units[s])
    /\ units[s][i].pc = "start"
    /\ units' = [units EXCEPT ![s][i] =
                    IF ctxDone
                    THEN [@ EXCEPT !.pc = "send", !.saw = TRUE,
                                   !.out = <<Result(0, ErrCanceled)>>]
                    ELSE [@ EXCEPT !.pc = "run"]]
    /\ UNCHANGED <<input, ctxDone, srcPos, srcErr, dpc, held, dres, wg, done, channel,
                   aerr, aidx, cpc, got, cnt, drains, hist>>
    /\ UNCHANGED svars

\* worker(ctx, idx, item, channel): the call of fn
UnitRun(s, i) ==
    /\ i \in 1..Len(units[s])
    /\ units[s][i].pc = "run"
    /\ units' = [units EXCEPT ![s][i] =
                    [@ EXCEPT !.pc = "send", !.ran = TRUE,
                              !.out = WorkerResults(input.op[s], units[s][i].item)]]
    /\ UNCHANGED <<input, ctxDone, srcPos, srcErr, dpc, held, dres, wg, done, channel,
                   aerr, aidx, cpc, got, cnt, drains, hist>>
    /\ UNCHANGED svars

\* a worker that sends its last result first
UnitSendLastFirst(s, i) ==
    /\ i \in 1..Len(units[s])
    /\ units[s][i].pc = "send"
    /\ units[s][i].out # <<>>
    /\ channel[s] = "open"
    /\ RecvReady(s)
    /\ units' = [units EXCEPT ![s][i] =
                    [@ EXCEPT !.out = SubSeq(@, 1, Len(@) - 1), !.sent = @ + 1]]
    /\ Receive(s, units[s][i].out[Len(units[s][i].out)], dpc)
    /\ UNCHANGED <<input, ctxDone, srcPos, srcErr, dres, wg, channel, drains>>
    /\ UNCHANGED svars

\* ch <- Result{...} by a worker
UnitSend(s, i) ==
    /\ i \in 1..Len(units[s])
    /\ units[s][i].pc = "send"
    /\ units[s][i].out # <<>>
    /\ channel[s] = "open"
    /\ RecvReady(s)
    /\ units' = [units EXCEPT ![s][i] = [@ EXCEPT !.out = Tail(@), !.sent = @ + 1]]
    /\ Receive(s, Head(units[s][i].out), dpc)
    /\ UNCHANGED <<input, ctxDone, srcPos, srcErr, dres, wg, channel, drains>>
    /\ UNCHANGED svars

\* IFlatMapAsyncCtx: select case <-ctx.Done() inside the loop over the results
\* (lines 207-212): the remaining results are replaced by one cancellation error
UnitSelectCanceled(s, i) ==
    /\ i \in 1..Len(units[s])
    /\ input.op[s] = "flatmap"
    /\ units[s][i].pc = "send"
    /\ units[s][i].out # <<>>
    /\ Head(units[s][i].out).err = Nil
    /\ ctxDone
    /\ units' = [units EXCEPT ![s][i] = [@ EXCEPT !.out = <<Result(0, ErrCanceled)>>]]
    /\ UNCHANGED <<input, ctxDone, srcPos, srcErr, dpc, held, dres, wg, done, channel,
                   aerr, aidx, cpc, got, cnt, drains, hist>>
    /\ UNCHANGED svars

\* a worker that returns without wg.Done()
UnitFinishForgetsDone(s, i) ==
    /\ i \in 1..Len(units[s])
    /\ units[s][i].pc = "send"
    /\ units[s][i].out = <<>>
    /\ units' = [units EXCEPT ![s][i] = [@ EXCEPT !.pc = "done"]]
    /\ UNCHANGED <<input, ctxDone, srcPos, srcErr, dpc, held, dres, wg, done, channel,
                   aerr, aidx, cpc, got, cnt, drains, hist>>
    /\ UNCHANGED svars

\* the worker returns: defer wg.Done()
UnitFinish(s, i) ==
    /\ i \in 1..Len(units[s])
    /\ units[s][i].pc = "send"
    /\ units[s][i].out = <<>>
    /\ units' = [units EXCEPT ![s][i] = [@ EXCEPT !.pc = "done"]]
    /\ wg' = [wg EXCEPT ![s] = @ - 1]
    /\ UNCHANGED <<input, ctxDone, srcPos, srcErr, dpc, held, dres, done, channel,
                   aerr, aidx, cpc, got, cnt, drains, hist>>
    /\ UNCHANGED svars

\* ------------------------------------------------------------------ context
InFlight(s) == \E i \in 1..Len(units[s]) : units[s][i].pc # "done"

\* cancel() of context.WithCancel, or the deadline of context.WithTimeout
Cancel ==
    /\ input.cancellable
    /\ ~ctxDone
    /\ ctxDone' = TRUE
    /\ hist' = [hist EXCEPT !.inflight = InFlight(Top),
                            !.waiting = dpc[Top] = "select" /\ InFlight(Top)]
    /\ UNCHANGED <<input, srcPos, srcErr, dpc, held, dres, wg, done, channel, units,
                   aerr, aidx, cpc, got, cnt, drains>>
    /\ UNCHANGED svars

\* ----------------------------------------------------------------- consumer
\* Err() of the Take over the outermost stage: its loop copies the stage's
\* error when the drain ended without the return at position n-1
TakeErr ==
    IF input.take > 0 /\ cpc = "returned" /\ drains > 0 /\ cnt < input.take
    THEN aerr[Top] ELSE Nil

\* the consumer calls Next / INext of the outermost sequence; IForEachAsyncCtx
\* is its own sequence's only consumer and collects it once
BeginDrain ==
    /\ cpc \in {"idle", "returned"}
    /\ drains < MaxDrains
    /\ input.op[Top] = "foreach" => drains = 0
    /\ TakeErr = Nil
    /\ cpc' = "recv"
    /\ cnt' = 0
    /\ aidx' = [aidx EXCEPT ![Top] = 0]
    /\ drains' = drains + 1
    /\ UNCHANGED <<input, ctxDone, srcPos, srcErr, dpc, held, dres, wg, done, channel,
                   units, aerr, got, hist>>
    /\ UNCHANGED svars

\* for item := range it.dataIn ends: the channel is closed
DrainClosed ==
    /\ cpc = "recv"
    /\ channel[Top] = "closed"
    /\ cpc' = "returned"
    /\ UNCHANGED <<input, ctxDone, srcPos, srcErr, dpc, held, dres, wg, done, channel,
                   units, aerr, aidx, got, cnt, drains, hist>>
    /\ UNCHANGED svars

\* ---------------------------------------------------------------- behaviour
Dispatcher(s) ==
    \/ PullClosed(s)
    \/ Body(s)
    \/ DispatcherSend(s)
    \/ WgWait(s)
    \/ Helper(s)
    \/ SelectDone(s)
    \/ SelectCanceled(s)

Worker(s, i) ==
    \/ UnitStart(s, i)
    \/ UnitRun(s, i)
    \/ UnitSend(s, i)
    \/ UnitSelectCanceled(s, i)
    \/ UnitFinish(s, i)

Consumer == BeginDrain \/ DrainClosed

Next ==
    \/ PullSource
    \/ \E s \in Stages : Dispatcher(s)
    \/ \E s \in Stages : \E i \in 1..MaxItems : Worker(s, i)
    \/ Cancel
    \/ Consumer

Spec == Init /\ [][Next]_vars

\* The Go scheduler runs every runnable goroutine: the dispatcher, the helper
\* and each worker take their next step when it stays possible, and a consumer
\* blocked in a receive sees the channel close.  The consumer is free not to
\* drain (again) and nobody has to cancel.
EngineFairness ==
    /\ WF_vars(PullSource)
    /\ \A s \in Stages : WF_vars(PullClosed(s) \/ Body(s) \/ DispatcherSend(s) \/ WgWait(s)
                                    \/ SelectDone(s) \/ SelectCanceled(s))
    /\ \A s \in Stages : WF_vars(Helper(s))
    /\ WF_vars(DrainClosed)

WorkerFairness == \A s \in Stages : \A i \in 1..MaxItems : WF_vars(Worker(s, i))

FairSpec == Spec /\ EngineFairness /\ WorkerFairness

\* fairness for the dispatcher and the consumer only: a worker may never finish
DispatchFairSpec == Spec /\ EngineFairness

\* ================================== the earlier engine without cancellation
\* processAsync(iter, worker func(T, chan)) and processAsync(iter, worker
\* func(int, T, chan)): one stage of MapAsync / FilterAsync / FlatMapAsync over
\* every source, with functions that cannot fail
OldInputs ==
    {in \in [src : Sources, chain : {1}, op : [Stages -> Ops],
             failOn : {0}, polls : {FALSE}, cancellable : {FALSE},
             limit : {NoLimit}, take : {0}] :
        /\ in.src.kind # "filtered"
        /\ in.src.errAt < Len(in.src.items) + (IF in.src.kind = "custom" THEN 1 ELSE 0)
        /\ in.op[2] = "map"}

OldInit ==
    /\ shared = NoShared
    /\ pipe = NoPipe
    /\ serr = [k \in {0} |-> Nil]
    /\ chanPos = 0
    /\ log = <<>>
    /\ input \in OldInputs
    /\ ctxDone = FALSE
    /\ srcPos = 0
    /\ srcErr = Nil
    /\ dpc = [s \in Stages |-> IF s <= input.chain THEN "pull" ELSE "none"]
    /\ held = [s \in Stages |-> [idx |-> 0, item |-> 0]]
    /\ dres = [s \in Stages |-> Result(0, Nil)]
    /\ wg = [s \in Stages |-> 0]
    /\ done = [s \in Stages |-> "none"]
    /\ channel = [s \in Stages |-> "open"]
    /\ units = [s \in Stages |-> <<>>]
    /\ aerr = [s \in Stages |-> Nil]
    /\ aidx = [s \in Stages |-> 0]
    /\ cpc = "idle"
    /\ got = <<>>
    /\ cnt = 0
    /\ drains = 0
    /\ hist = [pre |-> FALSE, inflight |-> FALSE, waiting |-> FALSE,
               obs |-> [s \in Stages |-> FALSE],
               pulled |-> [s \in Stages |-> 0]]

\* for idx, item := range iter.INext, over the source iterator; when the loop
\* ends the dispatcher goes on to wg.Wait()
OldPullSource ==
    /\ dpc[1] = "pull"
    /\ srcErr' = SourceErr
    /\ IF SourceYields
       THEN /\ srcPos' = NextPos + 1
            /\ held' = [held EXCEPT ![1] = [idx |-> NextPos,
                                            item |-> input.src.items[NextPos + 1]]]
            /\ dpc' = [dpc EXCEPT ![1] = "body"]
            /\ hist' = [hist EXCEPT !.pulled[1] = @ + 1]
       ELSE /\ dpc' = [dpc EXCEPT ![1] = "wgWait"]
            /\ UNCHANGED <<srcPos, held, hist>>
    /\ UNCHANGED <<input, ctxDone, dres, wg, done, channel, units, aerr, aidx, cpc, got,
                   cnt, drains>>
    /\ UNCHANGED svars

\* the loop body: the upstream error check, wg.Add(1) and the spawn
OldBody(s) ==
    /\ dpc[s] = "body"
    /\ IF UpErr(s) # Nil
       THEN /\ dres' = [dres EXCEPT ![s] = Result(0, UpErr(s))]
            /\ dpc' = [dpc EXCEPT ![s] = "sendLoop"]
            /\ UNCHANGED <<wg, units>>
       ELSE /\ wg' = [wg EXCEPT ![s] = @ + 1]
            /\ units' = [units EXCEPT ![s] = Append(@, NewUnit(s))]
            /\ dpc' = [dpc EXCEPT ![s] = "pull"]
            /\ dres' = dres
    /\ UNCHANGED <<input, ctxDone, srcPos, srcErr, held, done, channel, aerr, aidx, cpc,
                   got, cnt, drains, hist>>
    /\ UNCHANGED svars

\* a dispatcher that waits for its workers after the error it sent from the
\* loop
OldLoopSendThenWaits(s) ==
    /\ dpc[s] = "sendLoop"
    /\ channel[s] = "open"
    /\ RecvReady(s)
    /\ Receive(s, dres[s], [dpc EXCEPT ![s] = "wgWait"])
    /\ UNCHANGED <<input, ctxDone, srcPos, srcErr, dres, wg, channel, units, drains>>
    /\ UNCHANGED svars

\* channel <- Result{Err: iter.Err()}; return inside the loop: the deferred
\* close(channel) runs, wg.Wait() is skipped
OldLoopSend(s) ==
    /\ dpc[s] = "sendLoop"
    /\ channel[s] = "open"
    /\ RecvReady(s)
    /\ channel' = [channel EXCEPT ![s] = "closed"]
    /\ Receive(s, dres[s], [dpc EXCEPT ![s] = "exit"])
    /\ UNCHANGED <<input, ctxDone, srcPos, srcErr, dres, wg, units, drains>>
    /\ UNCHANGED svars

\* wg.Wait() after the loop returns, then the final check of iter.Err(): with
\* no error the function returns and the deferred close(channel) runs
OldWgWait(s) ==
    /\ dpc[s] = "wgWait"
    /\ wg[s] = 0
    /\ IF UpErr(s) # Nil
       THEN /\ dres' = [dres EXCEPT ![s] = Result(0, UpErr(s))]
            /\ dpc' = [dpc EXCEPT ![s] = "sendFinal"]
            /\ channel' = channel
       ELSE /\ dpc' = [dpc EXCEPT ![s] = "exit"]
            /\ channel' = [channel EXCEPT ![s] = "closed"]
            /\ dres' = dres
    /\ UNCHANGED <<input, ctxDone, srcPos, srcErr, held, wg, done, units, aerr, aidx, cpc,
                   got, cnt, drains, hist>>
    /\ UNCHANGED svars

\* the send of the final check, then the return and the deferred close
OldFinalSend(s) ==
    /\ dpc[s] = "sendFinal"
    /\ channel[s] = "open"
    /\ RecvReady(s)
    /\ channel' = [channel EXCEPT ![s] = "closed"]
    /\ Receive(s, dres[s], [dpc EXCEPT ![s] = "exit"])
    /\ UNCHANGED <<input, ctxDone, srcPos, srcErr, dres, wg, units, drains>>
    /\ UNCHANGED svars

\* worker(idx, item, channel): the goroutine calls the function at once
OldUnitRun(s, i) ==
    /\ i \in 1..Len(units[s])
    /\ units[s][i].pc = "start"
    /\ units' = [units EXCEPT ![s][i] =
                    [@ EXCEPT !.pc = "send", !.ran = TRUE,
                              !.out = WorkerResults(input.op[s], units[s][i].item)]]
    /\ UNCHANGED <<input, ctxDone, srcPos, srcErr, dpc, held, dres, wg, done, channel,
                   aerr, aidx, cpc, got, cnt, drains, hist>>
    /\ UNCHANGED svars

\* ch <- Result{...} on a channel that has been closed: the send panics
OldUnitPanics(s, i) ==
    /\ i \in 1..Len(units[s])
    /\ units[s][i].pc = "send"
    /\ units[s][i].out # <<>>
    /\ channel[s] = "closed"
    /\ units' = [units EXCEPT ![s][i] = [@ EXCEPT !.pc = "panicked"]]
    /\ UNCHANGED <<input, ctxDone, srcPos, srcErr, dpc, held, dres, wg, done, channel,
                   aerr, aidx, cpc, got, cnt, drains, hist>>
    /\ UNCHANGED svars

OldDispatcher(s) ==
    \/ OldBody(s)
    \/ OldLoopSend(s)
    \/ OldWgWait(s)
    \/ OldFinalSend(s)

OldWorker(s, i) ==
    \/ OldUnitRun(s, i)
    \/ UnitSend(s, i)
    \/ OldUnitPanics(s, i)
    \/ UnitFinish(s, i)

OldNext ==
    \/ OldPullSource
    \/ \E s \in Stages : OldDispatcher(s)
    \/ \E s \in Stages : \E i \in 1..MaxItems : OldWorker(s, i)
    \/ Consumer

OldSpec == OldInit /\ [][OldNext]_vars

\* ======================================================= synchronous pipelines
\* ------------------------------------------------------------- user functions
\* the transform of IMap: the item tagged with its position ("%d@%d")
IMapFn(i, x) == x * 10 + i

\* the predicate of IFilter: even positions, as in the tests
IPred(i, x) == i % 2 = 0

\* the expansion of IFlatMap: the item, and at even positions a tagged copy
IExpand(i, x) == IF i % 2 = 0 THEN <<x, x * 10 + i>> ELSE <<x>>

\* ----------------------------------------------------------------- inputs
\* the sources: a slice or standard iterator (NewIterator, restartable), a
\* fallible generator whose pair at position errAt carries an error
\* (NewIteratorErr; errAt = -1: none does), and a channel of values that was
\* filled and closed (NewAsyncIterator), and a channel of Results, filled and
\* closed, whose Result at position errAt carries an error (NewAsyncIteratorErr)
SyncSources ==
    {[kind |-> "slice", items |-> xs, errAt |-> -1] : xs \in SeqsUpTo(MaxSyncItems)}
    \cup {[kind |-> "channel", items |-> Iota(n), errAt |-> -1] : n \in 0..MaxSyncItems}
    \cup {src \in [kind : {"fallible", "results"}, items : {Iota(n) : n \in 0..MaxSyncItems},
                   errAt : (-1)..(MaxSyncItems - 1)] : src.errAt < Len(src.items)}

\* the tests' Iterator implementation that records an error once it has
\* yielded errAt elements and keeps yielding (customErrorIterator)
CustomSources ==
    {src \in [kind : {"custom"}, items : {Iota(n) : n \in 1..MaxSyncItems},
              errAt : 1..MaxSyncItems] : src.errAt <= Len(src.items)}

\* the source is read from a channel, which keeps its position between drains
FromChannel(src) == src.kind \in {"channel", "results"}

TakeNs == (-1)..MaxSyncItems

StageOps ==
    {[op |-> o, n |-> 0] : o \in {"map", "imap", "filter", "ifilter", "flatmap", "iflatmap"}}
    \cup {[op |-> "take", n |-> n] : n \in TakeNs}

\* the combinators stacked on the source, innermost first: none, one, two,
\* the README's chain Filter -> Take -> Map, and the chain Filter -> Map -> Take
\* of TestChainedOperations
Chains ==
    {<<>>} \cup {<<a>> : a \in StageOps} \cup {<<a, b>> : a \in StageOps, b \in StageOps}
    \cup {<<[op |-> "filter", n |-> 0], [op |-> "take", n |-> n], [op |-> "map", n |-> 0]>> :
            n \in TakeNs}
    \cup {<<[op |-> "filter", n |-> 0], [op |-> "map", n |-> 0], [op |-> "take", n |-> n]>> :
            n \in TakeNs}

Pipes == [src : SyncSources \cup CustomSources, ops : Chains]

\* ------------------------------------------------------------------ a drain
\* yield(idx, item) as sequence k - 1 calls it: the loop body of combinator k,
\* or the consumer's visit past the outermost one.  stop = 0: yield returned
\* true; otherwise the outermost sequence whose loop body returned
RECURSIVE Yield(_, _, _, _)
RECURSIVE FlatMapLoopStartsOverAtZero(_, _, _)
RECURSIVE FlatMapLoop(_, _, _)

\* the body of Take's loop without the position test
TakeBodyNeverStops(k, idx, item, e) == Yield(k + 1, idx, item, e)

\* a Take that counts the elements that reached the consumer instead of
\* looking at the upstream's position
TakeBodyCountsYielded(k, idx, item, e) ==
    LET r == Yield(k + 1, idx, item, e)
    IN IF r.stop # 0 THEN r
       ELSE [stop |-> IF Len(r.e.out) >= e.p.ops[k].n THEN k ELSE 0, e |-> r.e]

\* the body of Take's loop
TakeBody(k, idx, item, e) ==
    LET r == Yield(k + 1, idx, item, e)
    IN IF r.stop # 0 THEN r
       ELSE [stop |-> IF idx >= e.p.ops[k].n - 1 THEN k ELSE 0, e |-> r.e]

\* the body of IMap's loop applying the function to the position only
IMapBodyDropsItem(k, idx, item, e) ==
    Yield(k + 1, idx, idx, [e EXCEPT !.calls = Append(@, <<k, idx, item>>)])

\* the body of IMap's loop
IMapBody(k, idx, item, e) ==
    Yield(k + 1, idx,
          IF e.p.ops[k].op = "map" THEN MapFn(item) ELSE IMapFn(idx, item),
          [e EXCEPT !.calls = Append(@, <<k, idx, item>>)])

\* the body of IFilter's loop renumbering what it keeps
IFilterBodyRenumbers(k, idx, item, e) ==
    LET keep == IF e.p.ops[k].op = "filter" THEN Pred(item) ELSE IPred(idx, item)
        called == [e EXCEPT !.calls = Append(@, <<k, idx, item>>),
                            !.fidx[k] = @ + (IF keep THEN 1 ELSE 0)]
    IN IF keep THEN Yield(k + 1, e.fidx[k], item, called)
       ELSE [stop |-> 0, e |-> called]

\* the body of IFilter's loop
IFilterBody(k, idx, item, e) ==
    LET called == [e EXCEPT !.calls = Append(@, <<k, idx, item>>)]
    IN IF (IF e.p.ops[k].op = "filter" THEN Pred(item) ELSE IPred(idx, item))
       THEN Yield(k + 1, idx, item, called)
       ELSE [stop |-> 0, e |-> called]

\* an inner loop of IFlatMap whose outputIdx starts at 0 for every element
FlatMapLoopStartsOverAtZero(k, rs, e) ==
    IF rs = <<>> THEN [stop |-> 0, e |-> [e EXCEPT !.fidx[k] = 0]]
    ELSE LET r == Yield(k + 1, e.fidx[k], Head(rs), e)
         IN IF r.stop # 0 THEN r
            ELSE FlatMapLoopStartsOverAtZero(k, Tail(rs), [r.e EXCEPT !.fidx[k] = @ + 1])

\* the inner loop of IFlatMap over the results for one element
FlatMapLoop(k, rs, e) ==
    IF rs = <<>> THEN [stop |-> 0, e |-> e]
    ELSE LET r == Yield(k + 1, e.fidx[k], Head(rs), e)
         IN IF r.stop # 0 THEN r
            ELSE FlatMapLoop(k, Tail(rs), [r.e EXCEPT !.fidx[k] = @ + 1])

\* the body of IFlatMap's outer loop
IFlatMapBody(k, idx, item, e) ==
    FlatMapLoop(k, IF e.p.ops[k].op = "flatmap" THEN Expand(item) ELSE IExpand(idx, item),
                [e EXCEPT !.calls = Append(@, <<k, idx, item>>)])

\* the consumer's visit: it breaks out of its range loop after e.limit elements
Visit(k, idx, item, e) ==
    LET seen == [e EXCEPT !.out = Append(@, <<idx, item>>)]
    IN [stop |-> IF e.limit # NoLimit /\ Len(seen.out) >= e.limit THEN k ELSE 0,
        e |-> seen]

Yield(k, idx, item, e) ==
    IF k > Len(e.p.ops) THEN Visit(k, idx, item, e)
    ELSE CASE e.p.ops[k].op \in {"map", "imap"} -> IMapBody(k, idx, item, e)
           [] e.p.ops[k].op \in {"filter", "ifilter"} -> IFilterBody(k, idx, item, e)
           [] e.p.ops[k].op = "take" -> TakeBody(k, idx, item, e)
           [] e.p.ops[k].op \in {"flatmap", "iflatmap"} -> IFlatMapBody(k, idx, item, e)

\* the source's own loop from local position i: slices.All over a slice, the
\* generator under NewIteratorErr's callback, the receive loop of
\* asyncIterator.INext over the channel
RECURSIVE SourceLoop(_, _)
RECURSIVE SourceLoopPullsPastError(_, _)
RECURSIVE SourceLoopYieldsFailedPair(_, _)
RECURSIVE SourceLoopReceivesPastError(_, _)

\* a receive loop that records the error of a Result and goes on receiving
SourceLoopReceivesPastError(i, e) ==
    LET src == e.p.src
        at == IF FromChannel(src) THEN e.pos + 1 ELSE i + 1
        pulled == [e EXCEPT !.pulls = @ + 1, !.pos = IF FromChannel(src) THEN at ELSE @]
    IN IF at > Len(src.items) THEN [stop |-> 0, e |-> e]
       ELSE IF src.kind = "fallible" /\ i = src.errAt
            THEN [stop |-> 0, e |-> [pulled EXCEPT !.err[0] = ErrSource]]
       ELSE IF src.kind = "results" /\ at - 1 = src.errAt
            THEN SourceLoopReceivesPastError(i, [pulled EXCEPT !.err[0] = ErrSource])
       ELSE LET r == Yield(1, i, src.items[at], pulled)
            IN IF r.stop # 0 THEN r ELSE SourceLoopReceivesPastError(i + 1, r.e)

\* a source loop that records the error and still yields the value beside it
SourceLoopYieldsFailedPair(i, e) ==
    LET src == e.p.src
        at == IF FromChannel(src) THEN e.pos + 1 ELSE i + 1
        pulled == [e EXCEPT !.pulls = @ + 1, !.pos = IF FromChannel(src) THEN at ELSE @]
    IN IF at > Len(src.items) THEN [stop |-> 0, e |-> e]
       ELSE IF \/ src.kind = "fallible" /\ i = src.errAt
               \/ src.kind = "results" /\ at - 1 = src.errAt
            THEN [stop |-> 0,
                  e |-> Yield(1, i, src.items[at], [pulled EXCEPT !.err[0] = ErrSource]).e]
       ELSE LET r == Yield(1, i, src.items[at], pulled)
            IN IF r.stop # 0 THEN r ELSE SourceLoopYieldsFailedPair(i + 1, r.e)

\* a source loop that records the generator's error and keeps pulling
SourceLoopPullsPastError(i, e) ==
    LET src == e.p.src
        at == IF FromChannel(src) THEN e.pos + 1 ELSE i + 1
        pulled == [e EXCEPT !.pulls = @ + 1, !.pos = IF FromChannel(src) THEN at ELSE @]
    IN IF at > Len(src.items) THEN [stop |-> 0, e |-> e]
       ELSE IF src.kind = "fallible" /\ i = src.errAt
            THEN SourceLoopPullsPastError(i + 1, [pulled EXCEPT !.err[0] = ErrSource])
       ELSE IF src.kind = "results" /\ at - 1 = src.errAt
            THEN [stop |-> 0, e |-> [pulled EXCEPT !.err[0] = ErrSource]]
       ELSE LET r == Yield(1, i, src.items[at], pulled)
            IN IF r.stop # 0 THEN r ELSE SourceLoopPullsPastError(i + 1, r.e)

\* the loop pulls one pair or receives one item per turn; the generator's
\* pair at errAt and the channel's Result at errAt carry an error: the loop
\* records it and returns without yielding
SourceLoop(i, e) ==
    LET src == e.p.src
        at == IF FromChannel(src) THEN e.pos + 1 ELSE i + 1
        pulled == [e EXCEPT !.pulls = @ + 1, !.pos = IF FromChannel(src) THEN at ELSE @]
    IN IF at > Len(src.items) THEN [stop |-> 0, e |-> e]
       ELSE IF \/ src.kind = "fallible" /\ i = src.errAt
               \/ src.kind = "results" /\ at - 1 = src.errAt
            THEN [stop |-> 0, e |-> [pulled EXCEPT !.err[0] = ErrSource]]
       ELSE LET r == Yield(1, i, src.items[at], pulled)
            IN IF r.stop # 0 THEN r ELSE SourceLoop(i + 1, r.e)

RECURSIVE CustomLoop(_, _)

\* customErrorIterator.INext from local position i: it counts the yields that
\* returned true in its field itemsYielded (pos), sets its error when the
\* count reaches errorAfterItem and goes on with its loop
CustomLoop(i, e) ==
    LET src == e.p.src
    IN IF i + 1 > Len(src.items) THEN [stop |-> 0, e |-> e]
       ELSE LET r == Yield(1, i, src.items[i + 1], [e EXCEPT !.pulls = @ + 1])
            IN IF r.stop # 0 THEN r
               ELSE CustomLoop(i + 1,
                        [r.e EXCEPT !.pos = @ + 1,
                                    !.err[0] = IF r.e.pos + 1 = src.errAt THEN ErrSource ELSE @])

\* INext of a source without NewIteratorErr's check of self.Err()
SourceINextWithoutErrCheck(e) == SourceLoop(0, e)

\* INext of the source
SourceINext(e) ==
    IF e.p.src.kind = "fallible" /\ e.err[0] # Nil THEN [stop |-> 0, e |-> e]
    ELSE IF e.p.src.kind = "custom" THEN CustomLoop(0, e)
    ELSE SourceLoop(0, e)

RECURSIVE AfterLoop(_, _)

\* combinators that do not copy the upstream's error after their loop
AfterLoopDropsError(k, e) == e

\* the code after the range loop of the combinators k and outwards, whose loop
\* ended without their body returning: if iter.Err() != nil { self.err = ... }
AfterLoop(k, e) ==
    IF k > Len(e.p.ops) THEN e
    ELSE AfterLoop(k + 1, IF e.err[k - 1] # Nil THEN [e EXCEPT !.err[k] = e.err[k - 1]] ELSE e)

\* a combinator that returns at once only on its own error: Take without its
\* check of n
ReturnsAtOnceOnErrorOnly(k, e) == e.err[k] # Nil

\* combinator k returns before it ranges over its upstream: newIterator's
\* check of self.err, Take's check of n
ReturnsAtOnce(k, e) ==
    \/ e.err[k] # Nil
    \/ e.p.ops[k].op = "take" /\ e.p.ops[k].n <= 0

\* one drain of the outermost sequence of p by a consumer that stops after
\* limit elements: the sequences from the outermost inwards call their
\* upstream's INext until one returns at once or the source runs
Drain(p, err, pos, limit) ==
    LET N == Len(p.ops)
        e0 == [p |-> p, limit |-> limit, err |-> err, pos |-> pos, out |-> <<>>,
               pulls |-> 0, calls |-> <<>>, fidx |-> [k \in 1..N |-> 0], entered |-> {}]
        atOnce == {k \in 1..N : ReturnsAtOnce(k, e0)}
        first == CHOOSE k \in atOnce : \A j \in atOnce : j <= k
    IN IF atOnce # {}
       THEN [stop |-> first, e |-> AfterLoop(first + 1, [e0 EXCEPT !.entered = first..N])]
       ELSE LET r == SourceINext(e0)
            IN [stop |-> r.stop, e |-> AfterLoop(r.stop + 1, [r.e EXCEPT !.entered = 0..N])]

\* ------------------------------------------------------------------ actions
\* the consumer drains the outermost sequence, stopping after limit elements
Consume(limit) ==
    /\ Len(log) < MaxSyncDrains
    /\ LET r == Drain(pipe, serr, chanPos, limit)
       IN /\ serr' = r.e.err
          /\ chanPos' = r.e.pos
          /\ log' = Append(log, [call |-> "range", fails |-> 0, ret |-> Nil,
                                 limit |-> limit, out |-> r.e.out, calls |-> r.e.calls,
                                 pulls |-> r.e.pulls, entered |-> r.e.entered,
                                 ended |-> r.stop <= Len(pipe.ops),
                                 errBefore |-> serr, errAfter |-> r.e.err,
                                 posBefore |-> chanPos])
    /\ UNCHANGED <<pipe, shared>>
    /\ UNCHANGED avars

\* slices.Collect(it.Next)
Collect == Consume(NoLimit)

\* for i, v := range it.INext { ...; break } after m elements
RangeBreak(m) == Consume(m)

\* no parallel stage exists
AsyncIdle ==
    /\ input = [src |-> [kind |-> "slice", items |-> <<>>, errAt |-> -1], chain |-> 1,
                op |-> [s \in Stages |-> "map"], failOn |-> 0, polls |-> FALSE,
                cancellable |-> FALSE, limit |-> NoLimit, take |-> 0]
    /\ ctxDone = FALSE
    /\ srcPos = 0
    /\ srcErr = Nil
    /\ dpc = [s \in Stages |-> "none"]
    /\ held = [s \in Stages |-> [idx |-> 0, item |-> 0]]
    /\ dres = [s \in Stages |-> Result(0, Nil)]
    /\ wg = [s \in Stages |-> 0]
    /\ done = [s \in Stages |-> "none"]
    /\ channel = [s \in Stages |-> "open"]
    /\ units = [s \in Stages |-> <<>>]
    /\ aerr = [s \in Stages |-> Nil]
    /\ aidx = [s \in Stages |-> 0]
    /\ cpc = "idle"
    /\ got = <<>>
    /\ cnt = 0
    /\ drains = 0
    /\ hist = [pre |-> FALSE, inflight |-> FALSE, waiting |-> FALSE,
               obs |-> [s \in Stages |-> FALSE],
               pulled |-> [s \in Stages |-> 0]]

SyncInit ==
    /\ pipe \in Pipes
    /\ serr = [k \in 0..Len(pipe.ops) |-> Nil]
    /\ chanPos = 0
    /\ log = <<>>
    /\ shared = NoShared
    /\ AsyncIdle

SyncNext ==
    \/ Collect
    \/ \E m \in 1..MaxBreak : RangeBreak(m)

SyncSpec == SyncInit /\ [][SyncNext]_vars

\* a chain of combinators over one source: parallel stages, or synchronous
\* combinators
ChainNext ==
    \/ dpc[1] # "none" /\ Next
    \/ dpc[1] = "none" /\ SyncNext

ChainSpec == (Init \/ SyncInit) /\ [][ChainNext]_vars

\* ----------------------------------------------------------------- ForEach
\* the elements on which the caller's function reports a failure; 0: on none
FailOns == 0..MaxFailOn

\* an IForEach that returns nil whatever the sequence reports
IForEachReturnsNil(f) ==
    /\ Len(log) < MaxForEachCalls
    /\ LET r == Drain(pipe, serr, chanPos, NoLimit)
       IN /\ serr' = r.e.err
          /\ chanPos' = r.e.pos
          /\ log' = Append(log, [call |-> "foreach", fails |-> f, ret |-> Nil,
                                 limit |-> NoLimit, out |-> r.e.out, calls |-> r.e.calls,
                                 pulls |-> r.e.pulls, entered |-> r.e.entered,
                                 ended |-> r.stop <= Len(pipe.ops),
                                 errBefore |-> serr, errAfter |-> r.e.err,
                                 posBefore |-> chanPos])
    /\ UNCHANGED <<pipe, shared>>
    /\ UNCHANGED avars

\* IForEach(iter, fn): fn is called on every element the range loop over
\* iter.INext yields, nothing it reports is looked at, and the call returns
\* iter.Err().  out lists the invocations of fn
IForEach(f) ==
    /\ Len(log) < MaxForEachCalls
    /\ LET r == Drain(pipe, serr, chanPos, NoLimit)
       IN /\ serr' = r.e.err
          /\ chanPos' = r.e.pos
          /\ log' = Append(log, [call |-> "foreach", fails |-> f, ret |-> r.e.err[Len(pipe.ops)],
                                 limit |-> NoLimit, out |-> r.e.out, calls |-> r.e.calls,
                                 pulls |-> r.e.pulls, entered |-> r.e.entered,
                                 ended |-> r.stop <= Len(pipe.ops),
                                 errBefore |-> serr, errAfter |-> r.e.err,
                                 posBefore |-> chanPos])
    /\ UNCHANGED <<pipe, shared>>
    /\ UNCHANGED avars

\* ForEach(iter, fn) calls IForEach with a function that drops the position
ForEach(f) == IForEach(f)

ForEachNext == \E f \in FailOns : ForEach(f)

\* programs that end their pipeline in ForEach calls
ForEachSpec == SyncInit /\ [][ForEachNext]_vars

\* ----------------------------------------- a channel-backed sequence, shared
\* the producer's `channel <- item` meets the receive of the forwarder's
\* `for item := range dataIn`, which wraps the item into a Result
ProducerSend ==
    /\ shared.next <= Len(shared.data)
    /\ shared.fpc = "recv"
    /\ shared' = [shared EXCEPT !.fitem = Result(shared.data[shared.next], Nil),
                                !.fpc = "send",
                                !.next = @ + 1]
    /\ UNCHANGED pvars
    /\ UNCHANGED avars

\* the producer's deferred close(channel) after its last send
ProducerClose ==
    /\ shared.next > Len(shared.data)
    /\ ~shared.inClosed
    /\ shared' = [shared EXCEPT !.inClosed = TRUE]
    /\ UNCHANGED pvars
    /\ UNCHANGED avars

\* a forwarder that closes its channel as soon as dataIn is closed, whatever
\* it still holds
ForwarderCloseDropsHeld ==
    /\ shared.fpc \in {"recv", "send"}
    /\ shared.inClosed
    /\ shared' = [shared EXCEPT !.fpc = "done", !.outClosed = TRUE]
    /\ UNCHANGED pvars
    /\ UNCHANGED avars

\* the forwarder's range loop ends on the closed dataIn: deferred close(channel)
ForwarderClose ==
    /\ shared.fpc = "recv"
    /\ shared.inClosed
    /\ shared' = [shared EXCEPT !.fpc = "done", !.outClosed = TRUE]
    /\ UNCHANGED pvars
    /\ UNCHANGED avars

\* consumer c begins `for item := range iterator.Next`, to break after m
\* elements (NoLimit: never)
ConsumerStart(c, m) ==
    /\ shared.cons[c].pc = "idle"
    /\ shared' = [shared EXCEPT !.cons[c] = [pc |-> "recv", i |-> 0, limit |-> m, got |-> <<>>]]
    /\ UNCHANGED pvars
    /\ UNCHANGED avars

\* what the loop body of asyncIterator.INext does with a received Result
Received(k, r) ==
    IF r.err # Nil THEN [k EXCEPT !.pc = "returned"]
    ELSE LET seen == Append(k.got, <<k.i, r.val>>)
         IN [k EXCEPT !.got = seen,
                      !.i = @ + 1,
                      !.pc = IF k.limit # NoLimit /\ Len(seen) >= k.limit
                             THEN "returned" ELSE "recv"]

\* a receive that leaves the Result with the forwarder
ConsumerRecvLeavesItem(c) ==
    /\ shared.cons[c].pc = "recv"
    /\ shared.fpc = "send"
    /\ shared' = [shared EXCEPT !.cons[c] = Received(@, shared.fitem),
                                !.err = IF shared.fitem.err # Nil THEN shared.fitem.err ELSE @]
    /\ UNCHANGED pvars
    /\ UNCHANGED avars

\* the receive of consumer c's range loop meets the forwarder's send
ConsumerRecv(c) ==
    /\ shared.cons[c].pc = "recv"
    /\ shared.fpc = "send"
    /\ shared' = [shared EXCEPT !.cons[c] = Received(@, shared.fitem),
                                !.err = IF shared.fitem.err # Nil THEN shared.fitem.err ELSE @,
                                !.fpc = "recv"]
    /\ UNCHANGED pvars
    /\ UNCHANGED avars

\* consumer c's range loop ends on the closed channel
ConsumerSeesClosed(c) ==
    /\ shared.cons[c].pc = "recv"
    /\ shared.outClosed
    /\ shared' = [shared EXCEPT !.cons[c].pc = "returned"]
    /\ UNCHANGED pvars
    /\ UNCHANGED avars

\* where consumers stop: after 1..MaxStop elements, or never
Stops == {NoLimit} \cup 1..MaxStop

\* NewAsyncIterator(channel) over a channel a producer goroutine fills
SharedInit ==
    /\ shared \in {[NoShared EXCEPT !.data = Iota(n), !.fpc = "recv"] : n \in 0..MaxChanItems}
    /\ pipe = NoPipe
    /\ serr = [k \in {0} |-> Nil]
    /\ chanPos = 0
    /\ log = <<>>
    /\ AsyncIdle

SharedNext ==
    \/ ProducerSend
    \/ ProducerClose
    \/ ForwarderClose
    \/ \E c \in Consumers : \E m \in Stops : ConsumerStart(c, m)
    \/ \E c \in Consumers : ConsumerRecv(c)
    \/ \E c \in Consumers : ConsumerSeesClosed(c)

SharedSpec == SharedInit /\ [][SharedNext]_vars

\* ------------------------------------------------------------------ claims
Range(s) == {s[i] : i \in 1..Len(s)}

SeqToBag(s) == [v \in Range(s) |-> Cardinality({i \in 1..Len(s) : s[i] = v})]

AllDone(s) == \A i \in 1..Len(units[s]) : units[s][i].pc = "done"

FullDrainReturned == cpc = "returned" /\ input.limit = NoLimit /\ input.take = 0

\* no cancellation, a slice source and functions that do not fail
PureRun == input.src.kind = "slice" /\ ~input.cancellable /\ input.failOn = 0

\* neither the upstream nor a worker has an error of its own
NoOwnError == input.src.kind = "slice" /\ input.failOn = 0

\* C1: with a slice source, pure functions, no cancellation and a consumer that
\* drains to completion, the parallel chain yields exactly the multiset of the
\* synchronous chain over the same input, and Err() is nil
C1_ParallelSameMultiset ==
    (PureRun /\ FullDrainReturned) =>
        /\ SeqToBag(got) = SeqToBag(SyncChain(input))
        /\ aerr[Top] = Nil

\* C1 witness: a drained two-stage chain whose results arrived out of input order
C1_Witness ==
    /\ PureRun /\ FullDrainReturned
    /\ input.chain = 2
    /\ Len(got) >= 2
    /\ got # SyncChain(input)

\* C2: the rendezvous channel of a stage is closed only when every started
\* worker unit of that stage has finished, so no worker is left with a send on
\* a closed channel
C2_CloseAfterWorkers ==
    \A s \in Stages : channel[s] = "closed" => (wg[s] = 0 /\ AllDone(s))

\* C2 witness: the channel closed after a cancellation was seen while waiting,
\* with two worker units that had been started
C2_Witness ==
    /\ channel[Top] = "closed"
    /\ hist.waiting
    /\ hist.obs[Top]
    /\ Len(units[Top]) >= 2

\* C3: once the consumer has stopped reading, the rendezvous channel is
\* eventually closed (every started worker finishes and the dispatcher returns)
C3_StoppedConsumerLeadsToClose ==
    <>[](cpc = "returned") => <>(channel[Top] = "closed" /\ AllDone(Top))

\* C4: the drain call of a consumer that drains to completion always returns
C4_DrainReturns == (cpc = "recv" /\ input.limit = NoLimit) ~> (cpc = "returned")

\* C4 witness: the drain of a two-stage chain returned after a cancellation
\* that found worker units in flight
C4_Witness ==
    /\ FullDrainReturned
    /\ input.chain = 2
    /\ hist.inflight
    /\ Len(got) >= 1

\* C5: before the consumer begins to drain, no upstream element has been pulled
\* and no user function has been invoked
C5_NothingRunsBeforeDrain ==
    drains = 0 =>
        /\ srcPos = 0
        /\ \A s \in Stages : \A i \in 1..Len(units[s]) : ~units[s][i].ran

\* C6: a context canceled before the stage starts: no worker unit is started,
\* the function is never invoked, nothing is yielded, and Err() after the drain
\* is the cancellation error
C6_PreCanceled ==
    hist.pre =>
        /\ \A s \in Stages : units[s] = <<>>
        /\ got = <<>>
        /\ cpc = "returned" => aerr[Top] = ErrCanceled

\* the source yields at least one element before it ends or fails
SourceYieldsAny ==
    /\ input.src.items # <<>>
    /\ ~(input.src.kind = "fallible" /\ input.src.errAt = 0)

\* C6 as amended: a context canceled before the stage starts: no worker unit is
\* started, the function is never invoked, nothing is yielded; Err() after the
\* drain is the cancellation error when the source yields an element, and the
\* cancellation error or what the source left (its error, or nil) when it
\* yields none
C6_PreCanceledAmended ==
    hist.pre =>
        /\ \A s \in Stages : units[s] = <<>>
        /\ got = <<>>
        /\ cpc = "returned" =>
              IF SourceYieldsAny THEN aerr[Top] = ErrCanceled
              ELSE aerr[Top] \in {ErrCanceled, srcErr}

\* C6 witness: the drain of a stage over a non-empty source returned the
\* cancellation error after one element was pulled and none was started
C6_Witness ==
    /\ hist.pre
    /\ cpc = "returned"
    /\ srcPos = 1
    /\ aerr[Top] = ErrCanceled
    /\ units[1] = <<>>

SawCancelEmitsOne(u) ==
    u.saw =>
        /\ ~u.ran
        /\ u.sent + Len(u.out) = 1
        /\ u.out \in {<<>>, <<Result(0, ErrCanceled)>>}
        /\ u.pc = "done" => u.sent = 1

\* C8: after the dispatch loop has observed the cancellation it pulls no
\* further upstream element and starts no further worker unit, and a unit whose
\* start-time check observes it does not call the function and emits exactly
\* one cancellation error
C8_NoWorkAfterObservedCancel ==
    [][/\ \A s \in Stages :
            hist.obs[s] => /\ hist.pulled'[s] = hist.pulled[s]
                           /\ Len(units'[s]) = Len(units[s])
       /\ \A s \in Stages : \A i \in 1..Len(units'[s]) : SawCancelEmitsOne(units'[s][i])
      ]_vars

\* C8 witness: the dispatch loop observed the cancellation with an element left
\* in the source, and a unit that saw it at its start has finished
C8_Witness ==
    /\ hist.obs[1]
    /\ dpc[1] = "exit"
    /\ hist.pulled[1] <= Len(input.src.items)
    /\ \E i \in 1..Len(units[1]) : units[1][i].saw /\ units[1][i].pc = "done"

C10_StickyError == [][aerr[Top] # Nil => got' = got]_vars

\* C11: once Err() of a sequence is non-nil, no later step replaces or clears
\* it, whatever drains are made in between
C11_ErrorIsFinal == [][aerr[Top] # Nil => aerr'[Top] = aerr[Top]]_vars

\* ------------------------------------------- claims on synchronous pipelines
\* the outermost sequence of the pipeline
Outer == Len(pipe.ops)

\* the values and the positions of a drain's output, in order
Vals(out) == [i \in 1..Len(out) |-> out[i][2]]
Poss(out) == [i \in 1..Len(out) |-> out[i][1]]

\* drain d comes after a drain in which the sequence ended by itself
AfterExhaustion(d) == \E j \in 1..(d - 1) : log[j].ended

NoResultsLeft(d) ==
    pipe.src.kind = "results" => log[d].posBefore = Len(pipe.src.items)

\* the sequence drained in d checks its error before it runs: a combinator or
\* a generator-backed sequence, not a bare channel-backed one
ChecksErr == Outer >= 1 \/ pipe.src.kind \in {"slice", "fallible"}

FirstFull(d) == d = 1 /\ log[d].limit = NoLimit /\ pipe.src.kind = "slice"

\* C13: Map and IMap over a finite collection yield the function's value for
\* every element, in order, each with the position of its input, Err() nil
C13_MapYieldsImages ==
    \A d \in 1..Len(log) :
        (FirstFull(d) /\ Len(pipe.ops) = 1 /\ pipe.ops[1].op \in {"map", "imap"}) =>
            LET C == pipe.src.items
            IN /\ log[d].out = [i \in 1..Len(C) |->
                                  <<i - 1, IF pipe.ops[1].op = "map" THEN MapFn(C[i])
                                           ELSE IMapFn(i - 1, C[i])>>]
               /\ log[d].errAfter[Outer] = Nil

\* C13 witness: IMap over three elements was drained
C13_Witness ==
    /\ Len(log) = 1 /\ FirstFull(1)
    /\ Len(pipe.ops) = 1 /\ pipe.ops[1].op = "imap"
    /\ Len(pipe.src.items) = 3 /\ Len(log[1].out) = 3

\* the positions (1-based) of the elements of C that the predicate keeps
Kept(op, C) == {i \in 1..Len(C) : IF op = "filter" THEN Pred(C[i]) ELSE IPred(i - 1, C[i])}

\* the i-th smallest element of a finite set of numbers
RECURSIVE Nth(_, _)
Nth(S, i) ==
    LET m == CHOOSE x \in S : \A y \in S : x <= y
    IN IF i = 1 THEN m ELSE Nth(S \ {m}, i - 1)

\* C14: Filter and IFilter over a finite collection yield the elements the
\* predicate keeps, in order, each with its original position, and an indexed
\* combinator placed after them is called with those original positions
C14_FilterKeepsPositions ==
    \A d \in 1..Len(log) :
        (FirstFull(d) /\ Len(pipe.ops) >= 1 /\ pipe.ops[1].op \in {"filter", "ifilter"}) =>
            LET C == pipe.src.items
                K == Kept(pipe.ops[1].op, C)
                kept == [i \in 1..Cardinality(K) |-> <<Nth(K, i) - 1, C[Nth(K, i)]>>]
            IN /\ Len(pipe.ops) = 1 =>
                    (log[d].out = kept /\ log[d].errAfter[Outer] = Nil)
               /\ (Len(pipe.ops) = 2 /\ pipe.ops[2].op \in {"imap", "ifilter", "iflatmap"}) =>
                    [i \in 1..Cardinality(K) |-> <<2, kept[i][1], kept[i][2]>>]
                       = SelectSeq(log[d].calls, LAMBDA c : c[1] = 2)

\* C14 witness: IMap after Filter was called with a position that has a gap
\* before it
C14_Witness ==
    /\ Len(log) = 1 /\ FirstFull(1)
    /\ Len(pipe.ops) = 2 /\ pipe.ops[1].op = "filter" /\ pipe.ops[2].op = "imap"
    /\ \E i \in 1..Len(log[1].calls) : log[1].calls[i][1] = 2 /\ log[1].calls[i][2] = 1
    /\ Len(log[1].out) = 2

\* the first n elements of C with their positions
FirstN(C, n) == [i \in 1..(IF n < Len(C) THEN n ELSE Len(C)) |-> <<i - 1, C[i]>>]

\* C15: Take directly over a slice: n <= 0 yields nothing and never calls the
\* slice iterator's INext; n >= |C| yields all of C; otherwise the first n
\* elements; in order, and Err() is nil in every case
C15_TakeOverSlice ==
    \A d \in 1..Len(log) :
        (FirstFull(d) /\ Len(pipe.ops) = 1 /\ pipe.ops[1].op = "take") =>
            LET C == pipe.src.items
                n == pipe.ops[1].n
            IN /\ n <= 0 => (log[d].out = <<>> /\ 0 \notin log[d].entered)
               /\ n >= Len(C) => Vals(log[d].out) = C
               /\ (0 < n /\ n < Len(C)) => log[d].out = FirstN(C, n)
               /\ log[d].errAfter[Outer] = Nil

\* C15 witness: Take(2) over three elements was drained and yielded two
C15_Witness ==
    /\ Len(log) = 1 /\ FirstFull(1)
    /\ pipe.ops = <<[op |-> "take", n |-> 2]>>
    /\ Len(pipe.src.items) = 3
    /\ Len(log[1].out) = 2

\* what the sequence under the outermost combinator yields when it is drained
\* in full from the start
UpstreamYields ==
    Drain([src |-> pipe.src, ops |-> SubSeq(pipe.ops, 1, Outer - 1)],
          [k \in 0..(Outer - 1) |-> Nil], 0, NoLimit).e.out

Min(a, b) == IF a < b THEN a ELSE b

\* C16: Take(S, n) over any upstream S yields exactly min(n, number of
\* elements S yields) elements, the first ones of S; Filter(even) -> Take(n)
\* -> Map(x2) yields the doubles of the first n even elements
C16_TakeYieldsFirstN ==
    \A d \in 1..Len(log) :
        /\ (FirstFull(d) /\ Outer >= 1 /\ pipe.ops[Outer].op = "take"
                /\ pipe.ops[Outer].n >= 0) =>
              log[d].out = SubSeq(UpstreamYields, 1,
                                  Min(pipe.ops[Outer].n, Len(UpstreamYields)))
        /\ (FirstFull(d) /\ Outer = 3 /\ pipe.ops[2].op = "take" /\ pipe.ops[2].n >= 0) =>
              LET evens == Filter(pipe.src.items)
              IN Vals(log[d].out) = Map(SubSeq(evens, 1, Min(pipe.ops[2].n, Len(evens))))

\* C17: Take(Map(S, f), n) with n >= 1 over a slice: in no drain is f invoked
\* on an element after the first n (after the first one when n = 1)
C17_TakeIsLazy ==
    \A d \in 1..Len(log) :
        (/\ pipe.src.kind = "slice"
         /\ Outer = 2 /\ pipe.ops[1].op = "map" /\ pipe.ops[2].op = "take"
         /\ pipe.ops[2].n >= 1) =>
            /\ \A i \in 1..Len(log[d].calls) : log[d].calls[i][2] <= pipe.ops[2].n - 1
            /\ log[d].limit = NoLimit =>
                  log[d].calls = [i \in 1..Min(pipe.ops[2].n, Len(pipe.src.items)) |->
                                    <<1, i - 1, pipe.src.items[i]>>]

\* C17 witness: Take(Map(S, f), 1) over three elements was drained in full and
\* f was called once
C17_Witness ==
    /\ Len(log) >= 1 /\ log[1].limit = NoLimit
    /\ pipe.src.kind = "slice" /\ Len(pipe.src.items) = 3
    /\ pipe.ops = <<[op |-> "map", n |-> 0], [op |-> "take", n |-> 1]>>
    /\ Len(log[1].calls) = 1 /\ Len(log[1].out) = 1

\* the sub-sequences IFlatMap's function returns for what its upstream yields
Expansions(op, ups) ==
    [i \in 1..Len(ups) |-> IF op = "flatmap" THEN Expand(ups[i][2])
                           ELSE IExpand(ups[i][1], ups[i][2])]

\* C18: FlatMap and IFlatMap yield the concatenation, in upstream order, of
\* the sub-sequences of the upstream's elements, and report the positions
\* 0, 1, 2, ... across the whole output whatever the upstream positions are
C18_FlatMapConcatenates ==
    \A d \in 1..Len(log) :
        (FirstFull(d) /\ Outer >= 1 /\ pipe.ops[Outer].op \in {"flatmap", "iflatmap"}) =>
            /\ Vals(log[d].out) = Concat(Expansions(pipe.ops[Outer].op, UpstreamYields))
            /\ Poss(log[d].out) = [i \in 1..Len(log[d].out) |-> i - 1]

\* C18 witness: FlatMap after a Filter that dropped the first element yielded
\* four values
C18_Witness ==
    /\ Len(log) = 1 /\ FirstFull(1)
    /\ pipe.ops = <<[op |-> "filter", n |-> 0], [op |-> "flatmap", n |-> 0]>>
    /\ pipe.src.items = <<1, 2, 2>>
    /\ Len(log[1].out) = 4

\* a first, full drain over a generator whose pair at position k carries an
\* error: k good elements, then the error
FirstFullFallible(d) ==
    d = 1 /\ log[d].limit = NoLimit /\ pipe.src.kind = "fallible" /\ pipe.src.errAt >= 0

\* C19: Map, Filter and FlatMap over a generator that yields k good elements
\* and then an error yield the results for those k elements in order, call
\* the function on no later element, and Err() is the generator's error
C19_ErrorAfterKElements ==
    \A d \in 1..Len(log) :
        (FirstFullFallible(d) /\ Outer = 1
            /\ pipe.ops[1].op \in {"map", "filter", "flatmap"}) =>
            LET k == pipe.src.errAt
            IN /\ Vals(log[d].out) = SyncOp(pipe.ops[1].op, SubSeq(pipe.src.items, 1, k))
               /\ log[d].calls = [i \in 1..k |-> <<1, i - 1, pipe.src.items[i]>>]
               /\ log[d].errAfter[Outer] = ErrSource

\* C19 witness: Map over a generator with two good elements and an error at
\* the third yielded two values
C19_Witness ==
    /\ Len(log) = 1 /\ FirstFullFallible(1)
    /\ pipe.ops = <<[op |-> "map", n |-> 0]>>
    /\ pipe.src.errAt = 2
    /\ Len(log[1].out) = 2
    /\ serr[Outer] = ErrSource

\* Take as the outermost combinator, over the generator or over a Map of it
TakeOverFallible(d) ==
    /\ FirstFullFallible(d)
    /\ Outer \in {1, 2}
    /\ pipe.ops[Outer].op = "take" /\ pipe.ops[Outer].n > 0
    /\ Outer = 2 => pipe.ops[1].op \in {"map", "imap"}

BareFallible(d) ==
    /\ Outer = 0
    /\ pipe.src.kind = "fallible" /\ pipe.src.errAt >= 0
    /\ log[d].errBefore[0] = Nil

\* the first n elements of the source with their positions 0..n-1
Numbered(n) == [i \in 1..n |-> <<i - 1, pipe.src.items[i]>>]

\* C30: a sequence built by NewIteratorErr yields the elements before the first
\* pair with an error, in order, with positions 0..k-1; at that pair it records
\* the error, does not yield the pair's value and pulls the generator no further
C30_GeneratorStopsAtFirstError ==
    \A d \in 1..Len(log) :
        BareFallible(d) =>
            LET k == pipe.src.errAt
            IN IF log[d].limit = NoLimit \/ log[d].limit > k
               THEN /\ log[d].out = Numbered(k)
                    /\ log[d].errAfter[0] = ErrSource
                    /\ log[d].pulls = k + 1
               ELSE /\ log[d].out = Numbered(log[d].limit)
                    /\ log[d].errAfter[0] = Nil
                    /\ log[d].pulls = log[d].limit

\* C30 witness: a generator with a pair left after its failing second pair was
\* drained: one element yielded, two pairs pulled, the error recorded
C30_Witness ==
    /\ Len(log) = 1 /\ BareFallible(1)
    /\ pipe.src.errAt = 1 /\ Len(pipe.src.items) = 3
    /\ log[1].out = <<<<0, 1>>>>
    /\ log[1].pulls = 2
    /\ serr[0] = ErrSource

\* a first ForEach call on a bare sequence over a slice or a generator
FirstForEach(d) ==
    /\ d = 1 /\ log[d].call = "foreach"
    /\ Outer = 0 /\ pipe.src.kind \in {"slice", "fallible"}

\* the function fails on none of the elements it was invoked on
NeverFailed(d) == \A i \in 1..Len(log[d].out) : log[d].out[i][2] # log[d].fails

UpToFailure(d) ==
    LET failed == {i \in 1..Len(log[d].out) : log[d].out[i][2] = log[d].fails}
    IN IF failed = {} THEN log[d].out
       ELSE SubSeq(log[d].out, 1, CHOOSE i \in failed : \A j \in failed : i <= j)

\* C26: ForEach and IForEach stop at the first element for which the function
\* returns an error: the function is invoked on no later element and the call
\* returns exactly that error
C26_ForEachStopsAtFailure ==
    \A d \in 1..Len(log) :
        (log[d].call = "foreach" /\ ~NeverFailed(d)) =>
            /\ log[d].out = UpToFailure(d)
            /\ log[d].ret = ErrWorker

\* a drain of the bare sequence over a channel of Results that reaches the
\* Result carrying the error, at channel position k
ReachesFailedResult(d) ==
    /\ Outer = 0
    /\ pipe.src.kind = "results" /\ pipe.src.errAt >= log[d].posBefore
    /\ log[d].limit = NoLimit \/ log[d].limit > pipe.src.errAt - log[d].posBefore

\* C27: a sequence built by NewAsyncIteratorErr yields the values of the
\* error-free Results in channel order with positions 0, 1, 2, ...; the first
\* Result with an error sets Err(), ends the drain, its Value is not yielded
\* and the drain receives nothing after it
C27_ResultChannelStopsAtError ==
    \A d \in 1..Len(log) :
        ReachesFailedResult(d) =>
            LET from == log[d].posBefore
                k == pipe.src.errAt
            IN /\ log[d].out = [i \in 1..(k - from) |-> <<i - 1, pipe.src.items[from + i]>>]
               /\ log[d].errAfter[0] = ErrSource
               /\ log[d].ended
               /\ log[d].pulls = k - from + 1

\* C27 witness: a channel with a Result left after the failing second one was
\* drained: one value yielded, two Results received, the third left
C27_Witness ==
    /\ Len(log) = 1 /\ ReachesFailedResult(1)
    /\ pipe.src.errAt = 1 /\ Len(pipe.src.items) = 3
    /\ log[1].out = <<<<0, 1>>>>
    /\ chanPos = 2
    /\ serr[0] = ErrSource

\* ---------------------------------- claims on the shared channel-backed sequence
\* consumer c is the only one that ever drained, and drained to completion
SoleFullDrain(c) ==
    /\ shared.cons[c].pc = "returned" /\ shared.cons[c].limit = NoLimit
    /\ \A o \in Consumers \ {c} : shared.cons[o].pc = "idle"

\* C28: a sequence built by NewAsyncIterator, drained to completion by a single
\* consumer, yields every value sent on the source exactly once, in send
\* order, with positions 0..n-1; the drain ends when the source is closed;
\* Err() is nil
C28_SingleConsumerGetsAll ==
    \A c \in Consumers :
        SoleFullDrain(c) =>
            /\ shared.cons[c].got = [i \in 1..Len(shared.data) |-> <<i - 1, shared.data[i]>>]
            /\ shared.inClosed
            /\ shared.err = Nil

\* C28 witness: one consumer drained a channel of three values to its close
C28_Witness ==
    /\ SoleFullDrain(1)
    /\ Len(shared.data) = 3
    /\ Len(shared.cons[1].got) = 3
    /\ shared.outClosed

\* the deliveries: (consumer, place in its results)
Deliveries == {<<c, i>> : c \in Consumers, i \in 1..MaxChanItems + 1} \cap
              {x \in Consumers \X (1..MaxChanItems + 1) : x[2] <= Len(shared.cons[x[1]].got)}

Delivered(x) == shared.cons[x[1]].got[x[2]][2]

\* C29: several consumers draining the same channel-backed sequence
\* concurrently: every source value reaches at most one consumer and only
\* source values are delivered, never more than were sent, and Err() stays nil
C29_NoDuplicateDelivery ==
    /\ \A x \in Deliveries : \A y \in Deliveries : Delivered(x) = Delivered(y) => x = y
    /\ \A x \in Deliveries : Delivered(x) \in Range(shared.data)
    /\ Cardinality(Deliveries) <= shared.next - 1
    /\ shared.next - 1 <= Len(shared.data)
    /\ shared.err = Nil

\* C29 witness: two consumers that each stop after one element have both
\* returned with a value of their own, a third value left unreceived
C29_Witness ==
    /\ \A c \in Consumers : /\ shared.cons[c].pc = "returned"
                              /\ shared.cons[c].limit = 1
                              /\ Len(shared.cons[c].got) = 1
    /\ Len(shared.data) = 3
    /\ ~shared.outClosed

\* -------------------------------------- claims on errors in parallel stages
\* what the upstream of the first stage yields before the generator's error
GoodUpstream ==
    LET good == SubSeq(input.src.items, 1, input.src.errAt)
    IN IF input.src.kind = "filtered" THEN Filter(good) ELSE good

\* MapAsync or FilterAsync over a generator that fails after k elements, or
\* over a synchronous Filter of one; no cancellation, functions do not fail
StageOverFailingGenerator ==
    /\ input.src.kind \in {"fallible", "filtered"}
    /\ input.chain = 1 /\ input.op[1] \in {"map", "filter"}
    /\ ~input.cancellable /\ input.failOn = 0

\* C21: over a generator that yields k good elements and then an error, a
\* parallel Map or Filter (also behind a synchronous Filter) delivers exactly
\* the multiset of the results for those k elements, all before the error
\* ends the drain, and Err() is the generator's error
C21_ResultsBeforeUpstreamError ==
    /\ (StageOverFailingGenerator /\ FullDrainReturned) =>
          /\ SeqToBag(got) = SeqToBag(SyncOp(input.op[1], GoodUpstream))
          /\ aerr[1] = ErrSource
    /\ (StageOverFailingGenerator /\ input.limit = NoLimit /\ aerr[1] = Nil) =>
          Len(got) <= Len(SyncOp(input.op[1], GoodUpstream))

\* C21 witness: MapAsync behind a Filter that kept one element before the
\* generator failed delivered its image and reports the generator's error
C21_Witness ==
    /\ StageOverFailingGenerator /\ FullDrainReturned
    /\ input.src.kind = "filtered" /\ input.op[1] = "map"
    /\ Len(got) = 1
    /\ aerr[1] = ErrSource

\* a first, full drain of a synchronous chain of Map, Filter and Take (n above
\* the element count) over a generator that fails
SyncChainOverFailing(d) ==
    /\ FirstFullFallible(d)
    /\ \A k \in 1..Outer :
          \/ pipe.ops[k].op \in {"map", "filter"}
          \/ pipe.ops[k].op = "take" /\ pipe.ops[k].n > Len(pipe.src.items)

\* a fully drained chain of MapAsync and FilterAsync stages over a generator
\* that fails (or over a synchronous Filter of one)
AsyncChainOverFailing ==
    /\ dpc[1] # "none"
    /\ input.src.kind \in {"fallible", "filtered"}
    /\ \A s \in 1..Top : input.op[s] \in {"map", "filter"}
    /\ ~input.cancellable /\ input.failOn = 0
    /\ FullDrainReturned

\* C22: when the source of a chain of Map, Filter, Take (n above the element
\* count), MapAsync and FilterAsync sets an error during the drain, then after
\* the full drain of the outermost sequence every sequence of the chain, from
\* the source to the outermost, reports that error
C22_ErrorReachesEverySequence ==
    /\ \A d \in 1..Len(log) :
          SyncChainOverFailing(d) => \A k \in 0..Outer : log[d].errAfter[k] = ErrSource
    /\ AsyncChainOverFailing => (srcErr = ErrSource /\ \A s \in 1..Top : aerr[s] = ErrSource)

\* C22 witness: MapAsync -> FilterAsync over a generator that failed after its
\* first element: one value delivered, the error on both stages
C22_Witness ==
    /\ AsyncChainOverFailing
    /\ input.chain = 2 /\ input.op[1] = "map" /\ input.op[2] = "map"
    /\ Len(got) = 1
    /\ aerr[1] = ErrSource /\ aerr[2] = ErrSource

\* the synchronous case: Take over Map over a generator that failed after an
\* element, the error on all three sequences
C22_SyncCase ==
    /\ Len(log) = 1 /\ SyncChainOverFailing(1)
    /\ Outer = 2 /\ pipe.ops[1].op = "map" /\ pipe.ops[2].op = "take"
    /\ log[1].out # <<>>
    /\ \A k \in 0..Outer : serr[k] = ErrSource

\* ------------------------------------------------- claims on ForEachAsync
\* ForEachAsync / IForEachAsync over a slice
ForEachOverSlice == input.op[1] = "foreach" /\ input.src.kind = "slice"

\* the function fails on some element of the slice
SomeFails == \E i \in 1..Len(input.src.items) : input.src.items[i] = input.failOn

\* the call has returned: its internal drain has
ForEachReturned == cpc = "returned"

\* C23: ForEachAsync and IForEachAsync over a finite collection, with a
\* function that never fails and no cancellation: one invocation per element,
\* each with the element's upstream position, and the call returns nil only
\* after every invocation has completed
C23_ForEachAsyncRunsAll ==
    ForEachOverSlice =>
        /\ Len(units[1]) <= Len(input.src.items)
        /\ \A i \in 1..Len(units[1]) :
              units[1][i].idx = i - 1 /\ units[1][i].item = input.src.items[i]
        /\ (~SomeFails /\ ForEachReturned) =>
              /\ aerr[1] = Nil
              /\ Len(units[1]) = Len(input.src.items)
              /\ \A i \in 1..Len(units[1]) : units[1][i].ran /\ units[1][i].pc = "done"

\* C23 witness: ForEachAsync over two elements returned nil, the second
\* element's signal received first
C23_Witness ==
    /\ ForEachOverSlice /\ ~SomeFails /\ ForEachReturned
    /\ Len(units[1]) = 2
    /\ aerr[1] = Nil
    /\ Len(got) = 2

\* C24: when the function returns an error for at least one element, the
\* call returns one of the function's errors, and the function has been
\* invoked on an element that fails, whose Result the drain received, before
\* the call returns
C24_ForEachAsyncReturnsFnError ==
    (ForEachOverSlice /\ SomeFails /\ ForEachReturned) =>
        /\ aerr[1] = ErrWorker
        /\ \E i \in 1..Len(units[1]) :
              /\ units[1][i].item = input.failOn
              /\ units[1][i].ran
              /\ units[1][i].sent = 1

\* C24 witness: the call returned the error of the only failing element while
\* the unit of the other element had not run
C24_Witness ==
    /\ ForEachOverSlice /\ ForEachReturned
    /\ input.src.items = <<2, 1>> /\ input.failOn = 1
    /\ aerr[1] = ErrWorker
    /\ units[1][2].ran
    /\ ~units[1][1].ran

\* ------------------------------------------- claims on the indexed workers
\* the worker goroutines stage s has started
Started(s) == 1..Len(units[s])

\* C31: every worker invocation holds the position the upstream's INext
\* reported for its element (over the source: the element's position in the
\* source, also when a Filter below skipped elements; over a parallel stage:
\* the count asyncIterator.INext keeps), no two invocations hold the same pulled
\* pair, and whenever the dispatcher is back at the top of its loop every
\* pulled pair has its invocation, whatever the workers' progress
C31_WorkerGetsUpstreamPosition ==
    \A s \in Stages :
        /\ Len(units[s]) <= hist.pulled[s]
        /\ dpc[s] = "pull" => Len(units[s]) = hist.pulled[s]
        /\ \A i \in Started(s) :
              LET u == units[s][i]
              IN /\ s = 1 =>
                       /\ u.idx \in 0..(Len(input.src.items) - 1)
                       /\ u.item = input.src.items[u.idx + 1]
                       /\ input.src.kind # "filtered" => u.idx = i - 1
                       /\ input.src.kind = "filtered" => Pred(u.item)
                 /\ s = 2 => u.idx = i - 1
                 /\ \A j \in Started(s) : j # i => units[s][j].idx # u.idx

\* C31 witness: the worker of the second element has finished with position 1
\* while the worker of the first element has not started to run
C31_Witness ==
    /\ Len(units[1]) = 2
    /\ units[1][2].pc = "done" /\ units[1][2].idx = 1
    /\ units[1][2].item = input.src.items[2]
    /\ units[1][1].pc = "start" /\ units[1][1].idx = 0

\* ------------------------------------- claims on Take over a parallel stage
\* the elements the upstream of the parallel stage yields
StageUpstream ==
    IF input.src.kind = "fallible" THEN SubSeq(input.src.items, 1, input.src.errAt)
    ELSE input.src.items

\* what the parallel stage P under the Take produces, in upstream order
StageOutputs == SyncOp(input.op[1], StageUpstream)

\* the first drain of Take(P, n) has returned and P produces at least n outputs
TakeDrained ==
    /\ input.take > 0
    /\ cpc = "returned" /\ drains = 1
    /\ Len(StageOutputs) >= input.take

\* C32: Take(P, n) over a parallel stage P that produces at least n outputs
\* yields exactly n elements, all of them outputs of P and none more often
\* than P produces it, and Err() of the Take sequence is nil
C32_TakeOverParallelYieldsN ==
    TakeDrained =>
        /\ Len(got) = input.take
        /\ SeqToBag(got) \sqsubseteq SeqToBag(StageOutputs)
        /\ TakeErr = Nil

\* C32 witness: Take(MapAsyncCtx(<<1, 2>>), 1) returned after the result of the
\* second element, the first worker still holding its result
C32_Witness ==
    /\ TakeDrained
    /\ input.take = 1 /\ input.op[1] = "map" /\ input.src.items = <<1, 2>>
    /\ got = <<4>>
    /\ units[1][1].out # <<>>

\* ------------------------------------------ claims on failing functions
\* one cancellation-aware stage (MapAsyncCtx, FilterAsyncCtx, FlatMapAsyncCtx)
\* over a slice, under a context that is never cancelled, whose function
\* returns an error for some element
FnFailsOnSome ==
    /\ input.op[1] \in Ops /\ input.chain = 1 /\ input.take = 0
    /\ input.src.kind = "slice" /\ ~input.cancellable
    /\ SomeFails

\* the elements for which the function returns no error
Unfailing == SelectSeq(input.src.items, LAMBDA x : x # input.failOn)

\* C33: when the function of a cancellation-aware stage returns an error for
\* some element, the worker of that element sends the error and no value, the
\* sequence's Err() after a full drain is a worker's error, and the values the
\* consumer received are results of elements on which the function did not fail
C33_FailingElementEmitsNoValue ==
    FnFailsOnSome =>
        /\ \A i \in Started(1) :
              (units[1][i].item = input.failOn /\ units[1][i].ran) =>
                  /\ units[1][i].sent + Len(units[1][i].out) = 1
                  /\ \A k \in 1..Len(units[1][i].out) : units[1][i].out[k].err = ErrWorker
        /\ SeqToBag(got) \sqsubseteq SeqToBag(SyncOp(input.op[1], Unfailing))
        /\ FullDrainReturned => aerr[1] = ErrWorker

\* C33 witness: MapAsyncCtx over <<1, 2>> whose function fails on 1: the drain
\* received the result of 2, then the error
C33_Witness ==
    /\ FnFailsOnSome /\ FullDrainReturned
    /\ input.op[1] = "map" /\ input.src.items = <<1, 2>>
    /\ got = <<4>>
    /\ aerr[1] = ErrWorker
    /\ units[1][1].sent = 1

\* -------------------- claims on an upstream that fails while it keeps yielding
\* the upstream is the iterator that records its error after errAt elements
\* and goes on yielding
KeepsYielding == input.src.kind = "custom"

\* C34: over an upstream that sets its error after its k-th element and keeps
\* yielding, the engine starts worker units for the first k elements only,
\* pulls at most the one element on which it sees the error, and (no
\* cancellation, no failing function) Err() after a full drain is the
\* upstream's error
C34_NoUnitAfterUpstreamError ==
    KeepsYielding =>
        /\ Len(units[1]) <= input.src.errAt
        /\ \A i \in Started(1) : units[1][i].idx < input.src.errAt
        /\ hist.pulled[1] <= input.src.errAt + 1
        /\ srcErr = Nil => hist.pulled[1] <= input.src.errAt
        /\ (srcErr # Nil /\ dpc[1] # "body") => dpc[1] # "pull"
        /\ (FullDrainReturned /\ ~input.cancellable /\ input.failOn = 0) =>
              aerr[1] = ErrSource

\* C34 witness: the upstream set its error after its first element and
\* yielded a second one; the drain returned with the upstream's error before
\* the only worker unit delivered its result
C34_Witness ==
    /\ KeepsYielding /\ FullDrainReturned /\ ~input.cancellable /\ input.failOn = 0
    /\ input.src.errAt = 1 /\ Len(input.src.items) = 2
    /\ hist.pulled[1] = 2
    /\ Len(units[1]) = 1
    /\ got = <<>>
    /\ aerr[1] = ErrSource

\* ------------------------------------------- claims on FlatMapAsync's order
\* one FlatMapAsync / FlatMapAsyncCtx stage, never cancelled, whose function
\* does not fail
FlatMapUncancelled ==
    /\ input.op[1] = "flatmap" /\ input.chain = 1
    /\ ~input.cancellable /\ input.failOn = 0

\* how often v occurs among the first p received values
Occurs(v, p) == Cardinality({i \in 1..p : got[i] = v})

\* C37: the worker of one input sends that input's sub-sequence in order,
\* each element once: what it still holds is the sub-sequence without the
\* elements already sent, so that in every prefix of the merged output the
\* j-th element of a sub-sequence has arrived at least as often as the
\* (j+1)-th, and the number of arrivals of each is the number of workers
\* that sent it
C37_FlatMapKeepsOrderPerInput ==
    FlatMapUncancelled =>
        /\ \A i \in Started(1) :
              LET u == units[1][i]
                  rs == Expand(u.item)
              IN u.ran =>
                    /\ u.sent + Len(u.out) = Len(rs)
                    /\ \A j \in 1..Len(u.out) : u.out[j] = Result(rs[u.sent + j], Nil)
        /\ \A v \in Values :
              LET rs == Expand(v)
              IN \A j \in 1..Len(rs) :
                    /\ Occurs(rs[j], Len(got)) =
                          Cardinality({i \in Started(1) :
                                          units[1][i].item = v /\ units[1][i].sent >= j})
                    /\ j > 1 => \A p \in 0..Len(got) :
                                   Occurs(rs[j], p) <= Occurs(rs[j - 1], p)

\* C37 witness: FlatMapAsync over <<2, 2>> drained with the two sub-sequences
\* <<2, 20>> interleaved
C37_Witness ==
    /\ FlatMapUncancelled /\ FullDrainReturned
    /\ input.src.items = <<2, 2>>
    /\ got = <<2, 2, 20, 20>>

\* ------------------------------------- claims on the cancellation error
\* the first drain of one cancellation-aware MapAsyncCtx stage over a slice
\* ended with the cancellation error as Err()
EndedCancelled ==
    /\ input.cancellable /\ input.chain = 1 /\ input.op[1] = "map"
    /\ input.src.kind = "slice" /\ input.limit = NoLimit /\ input.take = 0
    /\ cpc = "returned" /\ drains = 1
    /\ aerr[1] = ErrCanceled

SeenBeforeWork ==
    \/ hist.obs[1] /\ hist.pulled[1] > Len(units[1])
    \/ \E i \in Started(1) : units[1][i].saw

C38_AllThenCancelled ==
    /\ EndedCancelled
    /\ Len(input.src.items) = 2
    /\ Len(got) = 2

\* ----------------------------------------- claims on Take's stopping rule
\* the elements of S up to and including the first one at a position >= n - 1
UpToPosition(S, n) ==
    LET hits == {i \in 1..Len(S) : S[i][1] >= n - 1}
    IN IF hits = {} THEN S
       ELSE SubSeq(S, 1, CHOOSE i \in hits : \A j \in hits : i <= j)

\* the chain Filter(even) -> Map(x2) -> Take(2) of TestChainedOperations
FilterMapTake2 ==
    /\ Outer = 3
    /\ pipe.ops[1].op = "filter" /\ pipe.ops[2].op = "map"
    /\ pipe.ops[3] = [op |-> "take", n |-> 2]

OverKeepsYielding(d) ==
    /\ d = 1 /\ log[d].call = "range" /\ log[d].limit = NoLimit
    /\ pipe.src.kind = "custom"
    /\ Outer = 1
    /\ pipe.ops[1].op \in {"map", "filter", "flatmap"}
          \/ (pipe.ops[1].op = "take" /\ pipe.ops[1].n > pipe.src.errAt)

\* what the combinator yields from the elements it is handed before the
\* upstream's error is set
BeforeError ==
    Drain([src |-> [kind |-> "slice", errAt |-> -1,
                    items |-> SubSeq(pipe.src.items, 1, pipe.src.errAt)],
           ops |-> pipe.ops],
          [k \in 0..Outer |-> Nil], 0, NoLimit).e.out

\* C35: a synchronous combinator over an upstream that sets its error in the
\* middle of a drain and would keep yielding makes no pull and yields no
\* element after the error is set, and reports that error
C35_SyncStopsOnUpstreamError ==
    \A d \in 1..Len(log) :
        OverKeepsYielding(d) =>
            /\ log[d].pulls <= pipe.src.errAt
            /\ log[d].out = BeforeError
            /\ log[d].errAfter[Outer] = ErrSource

\* ------------------------------------------ claims on the earlier engine
\* a worker goroutine of stage 1 holds a Result it has not sent yet
AboutToSend(i) == units[1][i].pc = "send" /\ units[1][i].out # <<>>

\* the send of the error seen in the loop is followed by the return and the
\* close, whatever the WaitGroup counts
LoopErrorReturns ==
    (dpc[1] = "sendLoop" /\ dpc'[1] # "sendLoop") =>
        /\ dpc'[1] = "exit"
        /\ channel'[1] = "closed"
        /\ wg' = wg
        /\ aerr'[1] = UpErr(1) /\ UpErr(1) # Nil

\* the channel is closed while the WaitGroup is not at zero only there
ClosedEarlyOnlyThere ==
    (channel[1] = "open" /\ channel'[1] = "closed" /\ wg[1] > 0) => dpc[1] = "sendLoop"

\* C39: in the earlier engine the dispatcher that sees the upstream's error
\* in its loop sends the error Result and returns in the same step, closing
\* the channel, whatever the WaitGroup counts; the channel is closed while
\* started workers have not finished only on that path
C39_LoopErrorClosesWithoutWaiting ==
    [][LoopErrorReturns /\ ClosedEarlyOnlyThere]_vars

\* C39 witness: the channel was closed after the loop's error send while a
\* started worker holds its result, about to send on the closed channel
C39_Witness ==
    /\ dpc[1] = "exit" /\ channel[1] = "closed"
    /\ input.src.kind = "custom"
    /\ aerr[1] = ErrSource
    /\ wg[1] > 0
    /\ \E i \in Started(1) : AboutToSend(i)

====
